---------------------------- MODULE Spec2Model ----------------------------
(***************************************************************************)
(* Model of doorstop/core/publisher.py: the format dispatcher (check),     *)
(* the publish orchestrator (publish, _index, _matrix), the search index   *)
(* and the traceability matrix table of _lines_index, and the CSV content  *)
(* of _matrix_content.                                                     *)
(*                                                                         *)
(* Python strings are sequences of one-character strings, so that          *)
(* startswith / endswith / splitext / string ordering are computed and not *)
(* assumed.  Python's None is the one-element sequence <<"None">>, which   *)
(* is no string of characters.                                             *)
(***************************************************************************)
EXTENDS Integers, Sequences, FiniteSets, TLC

None == <<"None">>

\* Python's None where an object (an item, a document) is expected
NoneObject == [none |-> TRUE]

----------------------------------------------------------------------------
(* Strings *)

\* characters in ASCII order (the order Python compares str by)
ASCII ==
    << ".", "/", "0", "1", "2", "3", "4", "5", "6", "7", "8", "9",
       "A", "C", "D", "E", "H", "I", "K", "L", "O", "Q", "R", "S", "T", "U",
       "a", "b", "c", "d", "e", "f", "h", "i", "k", "l", "m", "n", "o", "p",
       "q", "r", "s", "t", "u", "v", "x", "y" >>

ord(c) == CHOOSE k \in 1..Len(ASCII) : ASCII[k] = c

Min(a, b) == IF a <= b THEN a ELSE b

\* str.__lt__
StrLess(a, b) ==
    \/ \E k \in 1..Min(Len(a), Len(b)) :
          /\ \A j \in 1..(k - 1) : a[j] = b[j]
          /\ ord(a[k]) < ord(b[k])
    \/ /\ Len(a) < Len(b)
       /\ \A j \in 1..Len(a) : a[j] = b[j]

\* str.startswith
startswith(s, p) == Len(s) >= Len(p) /\ SubSeq(s, 1, Len(p)) = p

\* str.endswith
endswith(s, p) ==
    Len(s) >= Len(p) /\ SubSeq(s, Len(s) - Len(p) + 1, Len(s)) = p

\* str.rfind(c) + 1 : position of the last c, 0 when there is none
rfind(s, c) ==
    IF \E k \in 1..Len(s) : s[k] = c
    THEN CHOOSE k \in 1..Len(s) : s[k] = c /\ \A j \in (k + 1)..Len(s) : s[j] # c
    ELSE 0

\* os.path.splitext(p)[-1] : the suffix from the last dot of the last path
\* component, empty when that component has no dot or only leading dots
splitext(p) ==
    LET sep == rfind(p, "/")
        dot == rfind(p, ".")
    IN  IF dot > sep /\ \E k \in (sep + 1)..(dot - 1) : p[k] # "."
        THEN SubSeq(p, dot, Len(p))
        ELSE <<>>

\* os.path.dirname
dirname(p) == LET i == rfind(p, "/") IN IF i > 1 THEN SubSeq(p, 1, i - 1) ELSE SubSeq(p, 1, i)

\* os.path.basename
basename(p) == SubSeq(p, rfind(p, "/") + 1, Len(p))

\* os.path.join(a, b)
join(a, b) ==
    IF startswith(b, <<"/">>) THEN b
    ELSE IF a = <<>> \/ endswith(a, <<"/">>) THEN a \o b
    ELSE a \o <<"/">> \o b

----------------------------------------------------------------------------
(* Module constants of publisher.py *)

TXT  == << ".", "t", "x", "t" >>
MD   == << ".", "m", "d" >>
HTML == << ".", "h", "t", "m", "l" >>
DOTPDF == << ".", "p", "d", "f" >>

PDF    == << "i", "n", "d", "e", "x", ".", "p", "d", "f" >>
INDEX  == << "i", "n", "d", "e", "x", ".", "h", "t", "m", "l" >>
MATRIX == << "t", "r", "a", "c", "e", "a", "b", "i", "l", "i", "t", "y", ".", "c", "s", "v" >>
INDEX_MD == << "i", "n", "d", "e", "x", ".", "m", "d" >>
HTMLTEMPLATE == "sidebar"
PDF_CSS == "doorstop_pdf.css"
ASSETS == << "a", "s", "s", "e", "t", "s" >>

\* Mapping from file extension to lines generator, in insertion order
FORMAT_LINES ==
    << << TXT, "_lines_text" >>, << MD, "_lines_markdown" >>,
       << HTML, "_lines_html" >>, << DOTPDF, "_lines_markdown_pdf" >> >>

\* ext or None
OrNone(x) == IF x = <<>> \/ x = None THEN None ELSE x

\* check(ext) with the mapping of a release without the PDF renderer
check_without_pdf(e) ==
    LET known == SubSeq(FORMAT_LINES, 1, 3)
        exts == [k \in 1..Len(known) |-> known[k][1]]
        msg  == [text |-> "unknown publish format", format |-> OrNone(e), options |-> exts]
    IN  IF \E k \in 1..Len(known) : known[k][1] = e
        THEN [raised |-> "", gen |-> known[CHOOSE k \in 1..Len(known) : known[k][1] = e][2], msg |-> msg]
        ELSE [raised |-> "DoorstopError", gen |-> "", msg |-> msg]

\* check(ext) that falls back to the HTML renderer instead of raising
check_never_raises(e) ==
    IF \E k \in 1..Len(FORMAT_LINES) : FORMAT_LINES[k][1] = e
    THEN [raised |-> "", gen |-> FORMAT_LINES[CHOOSE k \in 1..Len(FORMAT_LINES) : FORMAT_LINES[k][1] = e][2],
          msg |-> [text |-> "", format |-> None, options |-> <<>>]]
    ELSE [raised |-> "", gen |-> "_lines_html",
          msg |-> [text |-> "", format |-> None, options |-> <<>>]]

\* check(ext): the lines generator, or the DoorstopError it raises
check(e) ==
    LET exts == [k \in 1..Len(FORMAT_LINES) |-> FORMAT_LINES[k][1]]
        msg  == [text |-> "unknown publish format", format |-> OrNone(e), options |-> exts]
    IN  IF \E k \in 1..Len(FORMAT_LINES) : FORMAT_LINES[k][1] = e
        THEN [raised |-> "", gen |-> FORMAT_LINES[CHOOSE k \in 1..Len(FORMAT_LINES) : FORMAT_LINES[k][1] = e][2], msg |-> msg]
        ELSE [raised |-> "DoorstopError", gen |-> "", msg |-> msg]


----------------------------------------------------------------------------
(* The object graph handed to the publisher: items, documents, tree *)

REQ     == << "R", "E", "Q" >>
TEST    == << "T", "E", "S", "T" >>
USECASE == << "U", "S", "E", "C", "A", "S", "E" >>
RISK    == << "R", "I", "S", "K" >>
HEAD    == << "H", "E", "A", "D" >>
ROLE    == << "R", "O", "L", "E" >>

\* bounds of the object graphs explored
MaxDocs == 2
MaxCalls == 2
MaxExtLen == 4
MaxTraceRows == 2
MaxLinks == 2

Digits == << "1", "2", "3", "4", "5", "6", "7", "8", "9" >>

Uid(prefix, n) == prefix \o << Digits[n] >>

\* an item: uid, depth of its level, the uids it links to (its parents)
Item(uid, depth, links) == [uid |-> uid, depth |-> depth, links |-> links]

\* a document: prefix, its active items in level order, the names of its
\* private asset files
Document(prefix, items, assets) == [prefix |-> prefix, items |-> items, assets |-> assets]

Range(f) == {f[k] : k \in DOMAIN f}

InjectiveSeqs(S, n) ==
    UNION {{q \in [1..m -> S] : \A a, b \in 1..m : a # b => q[a] # q[b]} : m \in 0..n}

AllItems(tree) == UNION {Range(d.items) : d \in Range(tree.documents)}

AllUids(tree) == {it.uid : it \in AllItems(tree)}

\* str(item) is the item's uid
str(item) == item.uid

\* is_tree(obj): hasattr(obj, 'documents')
is_tree(obj) == "documents" \in DOMAIN obj

\* Document.__lt__ as used by sorted(documents): by prefix
DocLess(a, b) == StrLess(a.prefix, b.prefix)

RECURSIVE InsertDoc(_, _)
InsertDoc(d, q) ==
    IF q = <<>> THEN <<d>>
    ELSE IF DocLess(d, Head(q)) THEN <<d>> \o q
    ELSE <<Head(q)>> \o InsertDoc(d, Tail(q))

\* sorted(documents): stable insertion from left to right
RECURSIVE sorted_documents(_)
sorted_documents(q) ==
    IF q = <<>> THEN <<>>
    ELSE InsertDoc(q[Len(q)], sorted_documents(SubSeq(q, 1, Len(q) - 1)))

\* doorstop.core.types.iter_documents(obj, path, ext): for a tree one
\* (document, <path>/<prefix><ext>) pair per document in tree order, for
\* anything else the object itself with the path as given
iter_documents(obj, path, e) ==
    IF is_tree(obj)
    THEN [k \in 1..Len(obj.documents) |->
            [obj2 |-> obj.documents[k], path2 |-> join(path, obj.documents[k].prefix \o e)]]
    ELSE << [obj2 |-> obj, path2 |-> path] >>

----------------------------------------------------------------------------
(* State *)

VARIABLES
    tree,       \* the tree of documents the caller holds
    obj,        \* publish(): the object being published (the tree or a document)
    path,       \* publish(): output directory (tree) or output file (document)
    args,       \* publish(): ext, linkify, index, matrix as passed by the caller
    ext,        \* publish(): the resolved output format
    linkify,    \* publish(): local variable linkify
    index,      \* publish(): local variable index
    matrix,     \* publish(): local variable matrix
    count,      \* publish(): local variable count
    i,          \* publish(): number of documents the running loop has consumed
    toc,        \* publish(): the PDF table of contents accumulated so far
    all_lines,  \* publish(): the combined PDF lines accumulated so far
    rendered,   \* the publish_lines() calls made by the running publish()
    written,    \* the output files written by the running publish()
    result,     \* what the last publish() returned or raised
    pc,         \* position of the running publish()
    calls,      \* number of publish() calls started
    files,      \* the files that exist outside the assets directories
    assets,     \* assets directory |-> the asset files in it
    content,    \* what index.html, traceability.csv, index.md, index.pdf hold
    files0,     \* files when the running publish() was called
    assets0,    \* assets when the running publish() was called
    fn,         \* pure-function harness: the input drawn
    out         \* pure-function harness: the value computed from it

vars == << tree, obj, path, args, ext, linkify, index, matrix, count, i, toc,
           all_lines, rendered, written, result, pc, calls, files, assets,
           content, files0, assets0, fn, out >>

callVars == << obj, path, args, ext, linkify, index, matrix >>
fsVars == << files, assets, content >>
pdfVars == << toc, all_lines >>
harnessVars == << fn, out >>

----------------------------------------------------------------------------
(* publish(): lines 45-196 *)

OUT == << "o", "u", "t" >>

\* the fixed template-asset bundle (doorstop/core/files/assets)
TemplateAssets == {"doorstop/bootstrap.min.css", "doorstop/general.css"}

\* line 76: ext or os.path.splitext(path)[-1] or '.html'
ResolveExt(e, p) ==
    IF e # None /\ e # <<>> THEN e
    ELSE IF splitext(p) # <<>> THEN splitext(p)
    ELSE HTML

\* "if x is None" inverted: the default replaces the value passed
OrDefaultInverted(arg, default) == IF arg # "None" THEN default ELSE FALSE

\* lines 78-83: "if x is None: x = default"
OrDefault(arg, default) == IF arg = "None" THEN default ELSE arg = "True"

\* lines 85-90
assets_dir(o, p) == IF is_tree(o) THEN join(p, ASSETS) ELSE join(dirname(p), ASSETS)

NoResult == [raised |-> "", value |-> None, msg |-> NoneObject]

Raise(name) == [raised |-> name, value |-> None, msg |-> NoneObject]

\* lines 45-83: the call, format resolution, check(ext), defaults
Publish(o, p, a) ==
    /\ pc = "idle"
    /\ calls < MaxCalls
    /\ calls' = calls + 1
    /\ obj' = o
    /\ path' = p
    /\ args' = a
    /\ ext' = ResolveExt(a.ext, p)
    /\ files0' = files
    /\ assets0' = assets
    /\ written' = {}
    /\ rendered' = <<>>
    /\ count' = 0
    /\ i' = 0
    /\ toc' = <<>>
    /\ all_lines' = <<>>
    /\ IF check(ext').raised # ""
       THEN /\ result' = [raised |-> check(ext').raised, value |-> None, msg |-> check(ext').msg]
            /\ pc' = "raised"
            /\ linkify' = FALSE
            /\ index' = FALSE
            /\ matrix' = FALSE
       ELSE /\ result' = NoResult
            /\ pc' = "assets"
            /\ linkify' = OrDefault(a.linkify, is_tree(o) /\ ext' \in {HTML, MD, DOTPDF})
            /\ index' = OrDefault(a.index, is_tree(o) /\ ext' = HTML)
            /\ matrix' = OrDefault(a.matrix, is_tree(o))
    /\ UNCHANGED << tree, fsVars, harnessVars >>

\* lines 92-96 without the delete: the directory is created when missing
\* and left as it is otherwise
ClearAssetsNoDelete ==
    /\ pc = "assets"
    /\ assets' = [d \in DOMAIN assets \cup {assets_dir(obj, path)} |->
                    IF d \in DOMAIN assets THEN assets[d] ELSE {}]
    /\ pc' = "template"
    /\ UNCHANGED << tree, callVars, count, i, pdfVars, rendered, written, result,
                    calls, files, content, files0, assets0, harnessVars >>

\* lines 92-96: delete the contents of the assets directory, or create it
ClearAssets ==
    /\ pc = "assets"
    /\ assets' = [d \in DOMAIN assets \cup {assets_dir(obj, path)} |->
                    IF d = assets_dir(obj, path) THEN {} ELSE assets[d]]
    /\ pc' = "template"
    /\ UNCHANGED << tree, callVars, count, i, pdfVars, rendered, written, result,
                    calls, files, content, files0, assets0, harnessVars >>

\* common.copy_dir_contents / shutil.copyfile / Document.copy_assets: add
\* the named files to the directory
CopyInto(dir, names) == [assets EXCEPT ![dir] = @ \cup names]

\* the template bundle copied for the HTML format only
CopyTemplateForHtml ==
    /\ pc = "template"
    /\ assets' = IF ext = HTML THEN CopyInto(assets_dir(obj, path), TemplateAssets) ELSE assets
    /\ pc' = IF ext = DOTPDF THEN "pdf"
             ELSE IF Len(iter_documents(obj, path, ext)) = 0 THEN "index"
             ELSE "documents"
    /\ UNCHANGED << tree, callVars, count, i, pdfVars, rendered, written, result,
                    calls, files, content, files0, assets0, harnessVars >>

\* lines 98-106: copy the template bundle; line 108 selects the branch
CopyTemplate ==
    /\ pc = "template"
    /\ assets' = CopyInto(assets_dir(obj, path), TemplateAssets)
    /\ pc' = IF ext = DOTPDF THEN "pdf"
             ELSE IF Len(iter_documents(obj, path, ext)) = 0 THEN "index"
             ELSE "documents"
    /\ UNCHANGED << tree, callVars, count, i, pdfVars, rendered, written, result,
                    calls, files, content, files0, assets0, harnessVars >>

\* publish_lines(obj2, ext, linkify=..., count=...): the renderer check(ext)
\* selects, applied to one document
publish_lines(o, e, l, n) ==
    [gen |-> check(e).gen, document |-> o.prefix, linkify |-> l, count |-> n]

\* lines 169-179 with the loop left after its first iteration
PublishDocumentOnce ==
    /\ pc = "documents"
    /\ LET docs == iter_documents(obj, path, ext)
           d == docs[i + 1]
       IN  /\ count' = count + 1
           /\ i' = i + 1
           /\ rendered' = Append(rendered, publish_lines(d.obj2, ext, linkify, 0))
           /\ files' = files \cup {d.path2}
           /\ written' = written \cup {d.path2}
           /\ assets' = CopyInto(assets_dir(obj, path), d.obj2.assets)
           /\ pc' = "index"
    /\ UNCHANGED << tree, callVars, pdfVars, result, calls, content, files0,
                    assets0, harnessVars >>

\* lines 169-179: one iteration of the loop over iter_documents()
PublishDocument ==
    /\ pc = "documents"
    /\ LET docs == iter_documents(obj, path, ext)
           d == docs[i + 1]
       IN  /\ count' = count + 1
           /\ i' = i + 1
           /\ rendered' = Append(rendered, publish_lines(d.obj2, ext, linkify, 0))
           /\ files' = files \cup {d.path2}
           /\ written' = written \cup {d.path2}
           /\ assets' = CopyInto(assets_dir(obj, path), d.obj2.assets)
           /\ pc' = IF i + 1 = Len(docs) THEN "index" ELSE "documents"
    /\ UNCHANGED << tree, callVars, pdfVars, result, calls, content, files0,
                    assets0, harnessVars >>

\* write a file: f with key k set to v
Put(f, k, v) == [x \in DOMAIN f \cup {k} |-> IF x = k THEN v ELSE f[x]]

PageBreak == [kind |-> "pagebreak", document |-> None, count |-> 0, toc |-> <<>>]

\* lines 117-141: the table-of-contents lines of one document, one per
\* item of depth 1
TocLines(document, n) ==
    LET top == SelectSeq(document.items, LAMBDA it : it.depth = 1)
    IN  [k \in 1..Len(top) |-> [count |-> n, uid |-> top[k].uid]]

\* the entry of the .pdf branch without line 109
PdfBeginKeepingLinkify ==
    /\ pc = "pdf"
    /\ linkify' = linkify
    /\ all_lines' = <<>>
    /\ toc' = <<>>
    /\ IF is_tree(obj)
       THEN /\ pc' = IF Len(obj.documents) = 0 THEN "pdf_finish" ELSE "pdf_loop"
            /\ result' = result
       ELSE /\ pc' = "raised"
            /\ result' = Raise("AttributeError")
    /\ UNCHANGED << tree, obj, path, args, ext, index, matrix, count, i, rendered,
                    written, calls, fsVars, files0, assets0, harnessVars >>

\* lines 108-113: entry of the .pdf branch; sorted(obj.documents) needs a tree
PdfBegin ==
    /\ pc = "pdf"
    /\ linkify' = FALSE
    /\ all_lines' = <<>>
    /\ toc' = <<>>
    /\ IF is_tree(obj)
       THEN /\ pc' = IF Len(obj.documents) = 0 THEN "pdf_finish" ELSE "pdf_loop"
            /\ result' = result
       ELSE /\ pc' = "raised"
            /\ result' = Raise("AttributeError")
    /\ UNCHANGED << tree, obj, path, args, ext, index, matrix, count, i, rendered,
                    written, calls, fsVars, files0, assets0, harnessVars >>

\* lines 113-150 with the test document counted before it is skipped
PdfDocumentCountingTests ==
    /\ pc = "pdf_loop"
    /\ LET docs == sorted_documents(obj.documents)
           document == docs[i + 1]
       IN  /\ i' = i + 1
           /\ pc' = IF i + 1 = Len(docs) THEN "pdf_finish" ELSE "pdf_loop"
           /\ count' = count + 1
           /\ IF document.prefix = TEST
              THEN UNCHANGED << toc, all_lines, rendered, assets >>
              ELSE /\ toc' = toc \o TocLines(document, count')
                   /\ rendered' = Append(rendered, publish_lines(document, ext, linkify, count'))
                   /\ all_lines' = all_lines \o
                        << [kind |-> "lines", document |-> document.prefix,
                            count |-> count', toc |-> <<>>],
                           PageBreak >>
                   /\ assets' = CopyInto(assets_dir(obj, path), document.assets)
    /\ UNCHANGED << tree, callVars, written, result, calls, files, content,
                    files0, assets0, harnessVars >>

\* lines 113-150: one iteration of the loop over sorted(obj.documents)
PdfDocument ==
    /\ pc = "pdf_loop"
    /\ LET docs == sorted_documents(obj.documents)
           document == docs[i + 1]
       IN  /\ i' = i + 1
           /\ pc' = IF i + 1 = Len(docs) THEN "pdf_finish" ELSE "pdf_loop"
           /\ IF document.prefix = TEST
              THEN UNCHANGED << count, toc, all_lines, rendered, assets >>
              ELSE /\ count' = count + 1
                   /\ toc' = toc \o TocLines(document, count')
                   /\ rendered' = Append(rendered, publish_lines(document, ext, linkify, count'))
                   /\ all_lines' = all_lines \o
                        << [kind |-> "lines", document |-> document.prefix,
                            count |-> count', toc |-> <<>>],
                           PageBreak >>
                   /\ assets' = CopyInto(assets_dir(obj, path), document.assets)
    /\ UNCHANGED << tree, callVars, written, result, calls, files, content,
                    files0, assets0, harnessVars >>

\* lines 151-167: stylesheet, title page, index.md and the conversion to
\* index.pdf
PdfFinish ==
    /\ pc = "pdf_finish"
    /\ assets' = CopyInto(assets_dir(obj, path), {PDF_CSS})
    /\ all_lines' =
          << [kind |-> "title", document |-> None, count |-> 0, toc |-> <<>>],
             [kind |-> "version", document |-> None, count |-> 0, toc |-> <<>>],
             PageBreak,
             [kind |-> "toc", document |-> None, count |-> 0, toc |-> toc],
             PageBreak >> \o all_lines
    /\ files' = files \cup {join(path, INDEX_MD), join(path, PDF)}
    /\ written' = written \cup {join(path, INDEX_MD), join(path, PDF)}
    /\ content' = Put(Put(content, join(path, INDEX_MD), [kind |-> "md", lines |-> all_lines']),
                      join(path, PDF), [kind |-> "pdf", lines |-> all_lines'])
    /\ pc' = "index"
    /\ UNCHANGED << tree, callVars, count, i, toc, rendered, result, calls,
                    files0, assets0, harnessVars >>

----------------------------------------------------------------------------
(* _lines_index(): lines 224-462 -- search array and traceability matrix *)

\* the items of the tree in the order of the two nested loops
\* "for document in sorted(documents): for item in document.items"
RECURSIVE ItemSeq(_)
ItemSeq(docs) == IF docs = <<>> THEN <<>> ELSE Head(docs).items \o ItemSeq(Tail(docs))

\* the search array with the test documents skipped, as the .pdf branch
\* of publish() skips them
SearchEntriesWithoutTests(t) ==
    LET docs == SelectSeq(sorted_documents(t.documents), LAMBDA d : d.prefix # TEST)
        Entries(d) == [k \in 1..Len(d.items) |-> [document |-> d.prefix, uid |-> d.items[k].uid]]
        F[n \in 0..Len(docs)] == IF n = 0 THEN <<>> ELSE F[n - 1] \o Entries(docs[n])
    IN  F[Len(docs)]

\* lines 281-291: one search entry per item of every document
SearchEntries(t) ==
    LET docs == sorted_documents(t.documents)
        Entries(d) == [k \in 1..Len(d.items) |-> [document |-> d.prefix, uid |-> d.items[k].uid]]
        F[n \in 0..Len(docs)] == IF n = 0 THEN <<>> ELSE F[n - 1] \o Entries(docs[n])
    IN  F[Len(docs)]

\* the sort key with its first component negated: (x is not None, ...)
KeyLessNoneFirst(a, b) ==
    IF b = None THEN FALSE
    ELSE IF a = None THEN TRUE
    ELSE StrLess(a, b)

\* sort key of lines 388-391: (x is None, str(x.uid) if x else '')
KeyLess(a, b) ==
    IF a = None THEN FALSE
    ELSE IF b = None THEN TRUE
    ELSE StrLess(a, b)

RECURSIVE InsertKey(_, _)
InsertKey(x, q) ==
    IF q = <<>> THEN <<x>>
    ELSE IF KeyLess(x, Head(q)) THEN <<x>> \o q
    ELSE <<Head(q)>> \o InsertKey(x, Tail(q))

\* sorted(q, key=...): stable
RECURSIVE sorted_by_key(_)
sorted_by_key(q) ==
    IF q = <<>> THEN <<>>
    ELSE InsertKey(q[Len(q)], sorted_by_key(SubSeq(q, 1, Len(q) - 1)))

\* a set as a list (iteration order of a Python set; every use sorts it)
RECURSIVE SetToSeq(_)
SetToSeq(S) ==
    IF S = {} THEN <<>>
    ELSE LET x == CHOOSE y \in S : \A z \in S : z = y \/ KeyLess(y, z)
         IN  <<x>> \o SetToSeq(S \ {x})

\* Item.parent_items: one item per link (an UnknownItem carrying the uid
\* when the tree holds no such item)
parent_items(t, item) == SetToSeq(item.links)

\* Item.find_child_items(skip_parent_check=True): the items of the whole
\* tree that link to the item
find_child_items(t, item) ==
    LET all == ItemSeq(sorted_documents(t.documents))
        kids == SelectSeq(all, LAMBDA c : item.uid \in c.links)
    IN  [k \in 1..Len(kids) |-> kids[k].uid]

\* lines 332, 343: a use case or a risk
IsUseCase(u) == startswith(u, USECASE) \/ startswith(u, RISK)

\* the categories without the headings
IsStructuralWithoutHead(u) ==
    \/ startswith(u, TEST)
    \/ startswith(u, ROLE)
    \/ startswith(u, USECASE)
    \/ startswith(u, RISK)

\* lines 334-340: the categories kept out of the requirement tier
IsStructural(u) ==
    \/ startswith(u, TEST)
    \/ startswith(u, ROLE)
    \/ startswith(u, USECASE)
    \/ startswith(u, RISK)
    \/ startswith(u, HEAD)

StatusOrder == << "error", "failure", "passed", "skipped" >>

\* lines 355-365: the badges of a test case, one per status in the result
\* file, sorted by status name, with the number of results of that status
Badges(t, u) ==
    IF u \in DOMAIN t.results
    THEN LET d == t.results[u]
             n(status) == Cardinality({k \in 1..Len(d) : d[k] = status})
             present == SelectSeq(StatusOrder, LAMBDA x : n(x) > 0)
         IN  [none |-> FALSE, badges |-> [k \in 1..Len(present) |-> [status |-> present[k], count |-> n(present[k])]]]
    ELSE [none |-> FALSE, badges |-> <<>>]

\* lines 342-348: the requirement is appended under each use-case parent
RECURSIVE AddUnderParents(_, _, _)
AddUnderParents(use_cases, parents, uid) ==
    IF parents = <<>> THEN use_cases
    ELSE LET use_case == Head(parents)
             next == IF ~IsUseCase(use_case) THEN use_cases
                     ELSE IF use_case \in DOMAIN use_cases
                          THEN [use_cases EXCEPT ![use_case] = Append(@, uid)]
                          ELSE Put(use_cases, use_case, <<uid>>)
         IN  AddUnderParents(next, Tail(parents), uid)

\* lines 329-367: the body of the loop, for one item
IndexItem(t, st, item) ==
    LET u == str(item)
        tests1 == IF startswith(u, TEST) THEN st.all_tests \cup {u} ELSE st.all_tests
        uc1 == IF IsUseCase(u) /\ u \notin DOMAIN st.use_cases
               THEN Put(st.use_cases, u, <<>>) ELSE st.use_cases
    IN  IF IsStructural(u)
        THEN [st EXCEPT !.all_tests = tests1, !.use_cases = uc1]
        ELSE LET parents == parent_items(t, item)
                 no_use_case == \A k \in 1..Len(parents) : ~IsUseCase(parents[k])
                 uc2 == AddUnderParents(uc1, parents, u)
                 uc3 == IF no_use_case THEN [uc2 EXCEPT ![None] = Append(@, u)] ELSE uc2
                 test_links == SelectSeq(find_child_items(t, item), LAMBDA l : startswith(l, TEST))
                 tc == [l \in DOMAIN st.test_cases \cup Range(test_links) |->
                          IF l \in Range(test_links) THEN Badges(t, l) ELSE st.test_cases[l]]
             IN  [all_tests |-> tests1,
                  linked_tests |-> st.linked_tests \cup Range(test_links),
                  use_cases |-> uc3,
                  requirements |-> Put(st.requirements, u, test_links),
                  test_cases |-> tc]

RECURSIVE IndexItems(_, _, _)
IndexItems(t, st, items) ==
    IF items = <<>> THEN st ELSE IndexItems(t, IndexItem(t, st, Head(items)), Tail(items))

\* the three dictionaries without the tests that no requirement links
GroupingWithoutUnlinkedTests(t) ==
    LET st0 == [all_tests |-> {}, linked_tests |-> {},
                use_cases |-> (None :> <<>>),
                requirements |-> << >>,
                test_cases |-> << >>]
        st == IndexItems(t, st0, ItemSeq(sorted_documents(t.documents)))
    IN  [use_cases |-> [st.use_cases EXCEPT ![None] = Append(@, None)],
         requirements |-> Put(st.requirements, None, <<>>),
         test_cases |-> st.test_cases]

\* lines 309-384: the three dictionaries
Grouping(t) ==
    LET st0 == [all_tests |-> {}, linked_tests |-> {},
                use_cases |-> (None :> <<>>),
                requirements |-> << >>,
                test_cases |-> << >>]
        st == IndexItems(t, st0, ItemSeq(sorted_documents(t.documents)))
        test_links == SetToSeq(st.all_tests \ st.linked_tests)
        tc == [l \in DOMAIN st.test_cases \cup Range(test_links) |->
                 IF l \in Range(test_links) THEN Badges(t, l) ELSE st.test_cases[l]]
    IN  [use_cases |-> [st.use_cases EXCEPT ![None] = Append(@, None)],
         requirements |-> Put(st.requirements, None, test_links),
         test_cases |-> tc]

NoResultCell == [none |-> TRUE, badges |-> <<>>]

Row(uc, r, tc, res) == [use_case |-> uc, requirement |-> r, test_case |-> tc, result |-> res]

\* lines 390-394: the rows of one requirement under one use case
RequirementRows(g, use_case, requirement) ==
    LET tcs == sorted_by_key(g.requirements[requirement])
    IN  [k \in 1..Len(tcs) |-> Row(use_case, requirement, tcs[k], g.test_cases[tcs[k]])]
        \o (IF Len(g.requirements[requirement]) = 0
            THEN << Row(use_case, requirement, None, NoResultCell) >> ELSE <<>>)

\* lines 389-396: the rows of one use case
UseCaseRows(g, use_case) ==
    LET reqs == sorted_by_key(g.use_cases[use_case])
        F[n \in 0..Len(reqs)] ==
            IF n = 0 THEN <<>> ELSE F[n - 1] \o RequirementRows(g, use_case, reqs[n])
    IN  F[Len(reqs)]
        \o (IF Len(g.use_cases[use_case]) = 0
            THEN << Row(use_case, None, None, NoResultCell) >> ELSE <<>>)

\* lines 386-396: rows, from the three dictionaries
RowsOf(g) ==
    LET ucs == sorted_by_key(SetToSeq(DOMAIN g.use_cases))
        F[n \in 0..Len(ucs)] == IF n = 0 THEN <<>> ELSE F[n - 1] \o UseCaseRows(g, ucs[n])
    IN  F[Len(ucs)]

\* lines 309-396: rows of a tree (the dictionaries are built once)
Rows(t) == CHOOSE rows \in {RowsOf(g) : g \in {Grouping(t)}} : TRUE

\* lines 414-418 with the loop of lines 421-425 pasted in: the count also
\* stops where the requirement changes
UseCaseSpanOfRequirement(rows, idx) ==
    LET stop == {k \in idx..Len(rows) :
                    \/ rows[k].requirement # rows[idx].requirement
                    \/ rows[k].use_case # rows[idx].use_case}
    IN  IF stop = {} THEN Len(rows) - idx + 1
        ELSE (CHOOSE k \in stop : \A j \in stop : k <= j) - idx

\* lines 414-418: the number of rows from idx on that share the use case
UseCaseSpan(rows, idx) ==
    LET stop == {k \in idx..Len(rows) : rows[k].use_case # rows[idx].use_case}
    IN  IF stop = {} THEN Len(rows) - idx + 1
        ELSE (CHOOSE k \in stop : \A j \in stop : k <= j) - idx

\* lines 421-425 with the loop of lines 414-418 pasted in: the count goes
\* on while the use case is the same
RequirementSpanOfUseCase(rows, idx) ==
    LET stop == {k \in idx..Len(rows) : rows[k].use_case # rows[idx].use_case}
    IN  IF stop = {} THEN Len(rows) - idx + 1
        ELSE (CHOOSE k \in stop : \A j \in stop : k <= j) - idx

\* lines 421-425: the number of rows from idx on that share the use case
\* and the requirement
RequirementSpan(rows, idx) ==
    LET stop == {k \in idx..Len(rows) :
                    \/ rows[k].requirement # rows[idx].requirement
                    \/ rows[k].use_case # rows[idx].use_case}
    IN  IF stop = {} THEN Len(rows) - idx + 1
        ELSE (CHOOSE k \in stop : \A j \in stop : k <= j) - idx

\* prev_use_case = "" (line 409): a value no use case equals
NoPrev == << "" >>

\* lines 409-447: the table body, one entry per <tr>; a rowspan of 0 says
\* that the row emits no cell in that column
Table(rows) ==
    [idx \in 1..Len(rows) |->
        LET prev_use_case == IF idx = 1 THEN NoPrev ELSE rows[idx - 1].use_case
            prev_requirement == IF idx = 1 THEN None ELSE rows[idx - 1].requirement
            use_case == rows[idx].use_case
            requirement == rows[idx].requirement
        IN  [use_case_rowspan |->
                IF use_case # prev_use_case THEN UseCaseSpan(rows, idx) ELSE 0,
             requirement_rowspan |->
                IF requirement # prev_requirement \/ use_case # prev_use_case
                THEN RequirementSpan(rows, idx) ELSE 0,
             row |-> rows[idx]]]

\* _lines_index(filenames, tree=tree, link_to_pdf=...) for a tree: the
\* document list, the optional PDF link and the search array when there
\* are filenames (lines 254-302), the traceability matrix when the tree
\* has documents (lines 304-449)
_lines_index(filenames, t, link_to_pdf) ==
    [kind |-> "index",
     documents |-> IF filenames # {}
                   THEN [k \in 1..Len(t.documents) |-> sorted_documents(t.documents)[k].prefix]
                   ELSE <<>>,
     link_to_pdf |-> filenames # {} /\ link_to_pdf,
     search |-> IF filenames # {} THEN SearchEntries(t) ELSE <<>>,
     table |-> IF Len(t.documents) > 0
               THEN CHOOSE table \in {Table(rows) : rows \in {Rows(t)}} : TRUE
               ELSE <<>>]

\* _extract_prefix
_extract_prefix(document) == IF document # NoneObject THEN document.prefix ELSE None

\* _extract_uid
_extract_uid(item) == IF item # NoneObject THEN item.uid ELSE None

\* _matrix_content() without the header row
_matrix_content_headerless(t) ==
    [r \in 1..Len(t.traceability) |->
        [c \in 1..Len(t.traceability[r]) |-> _extract_uid(t.traceability[r][c])]]

\* _matrix_content(tree): the header row and one row per traceability row
_matrix_content(t) ==
    << [k \in 1..Len(t.documents) |-> _extract_prefix(t.documents[k])] >>
    \o [r \in 1..Len(t.traceability) |->
          [c \in 1..Len(t.traceability[r]) |-> _extract_uid(t.traceability[r][c])]]

----------------------------------------------------------------------------
(* publish(): index, matrix, return *)

\* os.path.isdir
isdir(d) ==
    \/ d \in DOMAIN assets
    \/ \E f \in files \cup DOMAIN assets : dirname(f) = d

\* os.listdir
listdir(d) == {basename(f) : f \in {g \in files \cup DOMAIN assets : dirname(g) = d}}

\* _index() that writes the index whether or not there are files to list
_index_always(directory, t) ==
    LET filenames == {f \in listdir(directory) : endswith(f, HTML) /\ f # INDEX}
    IN  IF ~isdir(directory)
        THEN [raised |-> "NotADirectoryError", write |-> FALSE, lines |-> NoneObject]
        ELSE [raised |-> "", write |-> TRUE,
              lines |-> _lines_index(filenames, t, join(directory, PDF) \in files)]

\* _index() that never passes link_to_pdf
_index_without_pdf_link(directory, t) ==
    LET filenames == {f \in listdir(directory) : endswith(f, HTML) /\ f # INDEX}
    IN  IF ~isdir(directory)
        THEN [raised |-> "NotADirectoryError", write |-> FALSE, lines |-> NoneObject]
        ELSE IF filenames # {}
        THEN [raised |-> "", write |-> TRUE, lines |-> _lines_index(filenames, t, FALSE)]
        ELSE [raised |-> "", write |-> FALSE, lines |-> NoneObject]

\* _index(directory, tree=tree): lines 199-221.  The outcome: the error
\* raised, whether index.html is written, and its lines
_index(directory, t) ==
    LET filenames == {f \in listdir(directory) : endswith(f, HTML) /\ f # INDEX}
    IN  IF ~isdir(directory)
        THEN [raised |-> "NotADirectoryError", write |-> FALSE, lines |-> NoneObject]
        ELSE IF filenames # {}
        THEN [raised |-> "", write |-> TRUE,
              lines |-> _lines_index(filenames, t, join(directory, PDF) \in files)]
        ELSE [raised |-> "", write |-> FALSE, lines |-> NoneObject]

\* lines 181-183
CreateIndex ==
    /\ pc = "index"
    /\ IF index /\ count > 0
       THEN \E r \in {_index(path, IF is_tree(obj) THEN obj ELSE NoneObject)} :
                IF r.raised # ""
                THEN /\ pc' = "raised"
                     /\ result' = Raise(r.raised)
                     /\ UNCHANGED << files, written, content >>
                ELSE /\ pc' = "matrix"
                     /\ result' = result
                     /\ IF r.write
                        THEN /\ files' = files \cup {join(path, INDEX)}
                             /\ written' = written \cup {join(path, INDEX)}
                             /\ content' = Put(content, join(path, INDEX), r.lines)
                        ELSE UNCHANGED << files, written, content >>
       ELSE /\ pc' = "matrix"
            /\ UNCHANGED << files, written, content, result >>
    /\ UNCHANGED << tree, callVars, count, i, pdfVars, rendered, calls, assets,
                    files0, assets0, harnessVars >>

\* _matrix(directory, tree): lines 483-502.  Whether traceability.csv is
\* written, and its rows
_matrix(directory, t) ==
    IF t # NoneObject
    THEN [write |-> TRUE, rows |-> _matrix_content(t)]
    ELSE [write |-> FALSE, rows |-> <<>>]

\* the condition of upstream doorstop: "if matrix and count"
MatrixWantedWithoutIndex == matrix /\ count > 0

\* line 186: "if index and matrix and count"
MatrixWanted == index /\ matrix /\ count > 0

\* lines 185-187
CreateMatrix ==
    /\ pc = "matrix"
    /\ IF MatrixWanted
       THEN \E r \in {_matrix(path, IF is_tree(obj) THEN obj ELSE NoneObject)} :
                IF r.write
                THEN /\ files' = files \cup {join(path, MATRIX)}
                     /\ written' = written \cup {join(path, MATRIX)}
                     /\ content' = Put(content, join(path, MATRIX), [kind |-> "csv", rows |-> r.rows])
                ELSE UNCHANGED << files, written, content >>
       ELSE UNCHANGED << files, written, content >>
    /\ pc' = "return"
    /\ UNCHANGED << tree, callVars, count, i, pdfVars, rendered, result, calls,
                    assets, files0, assets0, harnessVars >>

\* lines 189-196
Return ==
    /\ pc = "return"
    /\ result' = [raised |-> "", value |-> IF count > 0 THEN path ELSE None, msg |-> NoneObject]
    /\ pc' = "returned"
    /\ UNCHANGED << tree, callVars, count, i, pdfVars, rendered, written, calls,
                    fsVars, files0, assets0, harnessVars >>

----------------------------------------------------------------------------
(* The trees and the calls explored *)

REQ1 == Uid(REQ, 1)
REQ2 == Uid(REQ, 2)
TEST1 == Uid(TEST, 1)
TEST2 == Uid(TEST, 2)
USECASE1 == Uid(USECASE, 1)
USECASE2 == Uid(USECASE, 2)
RISK1 == Uid(RISK, 1)

\* the items of each document, given the links of every item
DocumentOf(prefix, links) ==
    IF prefix = REQ
    THEN Document(REQ, << Item(REQ1, 1, links[REQ1]), Item(REQ2, 2, links[REQ2]) >>, {"REQ.png"})
    ELSE IF prefix = TEST
    THEN Document(TEST, << Item(TEST1, 1, links[TEST1]), Item(TEST2, 1, links[TEST2]) >>, {})
    ELSE IF prefix = USECASE
    THEN Document(USECASE, << Item(USECASE1, 1, links[USECASE1]), Item(USECASE2, 1, links[USECASE2]) >>, {})
    ELSE Document(RISK, << Item(RISK1, 1, links[RISK1]) >>, {})

Universe == {REQ1, REQ2, TEST1, TEST2, USECASE1, USECASE2, RISK1}

\* Tree.get_traceability() of a tree whose rows are not drawn: one row per
\* item, the item in the column of its document
ItemRows(documents) ==
    LET cells == ItemSeq(documents)
    IN  [r \in 1..Len(cells) |->
            [c \in 1..Len(documents) |->
                IF cells[r] \in Range(documents[c].items) THEN cells[r] ELSE NoneObject]]

Tree(documents, traceability, results) ==
    [documents |-> documents, traceability |-> traceability, results |-> results]

NoResults == << >>

\* the links of the trees the orchestrator publishes
PlainLinks ==
    [u \in Universe |->
        IF u = REQ1 THEN {USECASE1} ELSE IF u = TEST1 THEN {REQ1} ELSE {}]

PublishPrefixes == {REQ, TEST}

PublishTrees ==
    {Tree([k \in 1..Len(q) |-> DocumentOf(q[k], PlainLinks)],
          ItemRows([k \in 1..Len(q) |-> DocumentOf(q[k], PlainLinks)]),
          NoResults) : q \in InjectiveSeqs(PublishPrefixes, MaxDocs)}

Flags == {"None", "True", "False"}

ExtArgs == {None, <<>>, TXT, MD, HTML, DOTPDF, << ".", "x" >>}

\* output paths of a document: a supported suffix and an unsupported one
DocumentPaths == {join(OUT, <<"d">> \o MD), join(OUT, << "d", ".", "x" >>)}

\* what a call publishes, and where: the tree to the directory out (a path
\* without suffix), or the first document of the tree to a file in out
Objects(t) ==
    {<< t, OUT >>}
    \cup (IF Len(t.documents) > 0 THEN {t.documents[1]} \X DocumentPaths ELSE {})

\* no publish() is running: no frame, no locals
NoFrame ==
    /\ obj = NoneObject
    /\ path = None
    /\ args = NoneObject
    /\ ext = None
    /\ linkify = FALSE
    /\ index = FALSE
    /\ matrix = FALSE
    /\ count = 0
    /\ i = 0
    /\ toc = <<>>
    /\ all_lines = <<>>
    /\ rendered = <<>>
    /\ written = {}
    /\ result = NoResult
    /\ pc = "idle"
    /\ files0 = {}
    /\ assets0 = << >>

Idle(t) ==
    /\ tree = t
    /\ NoFrame
    /\ calls = 0
    /\ files = {}
    /\ assets = << >>
    /\ content = << >>

NoHarness == [name |-> "", arg |-> None]

Init ==
    /\ \E t \in PublishTrees : Idle(t)
    /\ fn = NoHarness
    /\ out = NoneObject

\* lines 193, 196 and every raise: the call is over, its frame is gone and
\* the caller is left with the files
Exit ==
    /\ pc \in {"returned", "raised"}
    /\ pc' = "idle"
    /\ obj' = NoneObject
    /\ path' = None
    /\ args' = NoneObject
    /\ ext' = None
    /\ linkify' = FALSE
    /\ index' = FALSE
    /\ matrix' = FALSE
    /\ count' = 0
    /\ i' = 0
    /\ toc' = <<>>
    /\ all_lines' = <<>>
    /\ rendered' = <<>>
    /\ written' = {}
    /\ result' = NoResult
    /\ files0' = {}
    /\ assets0' = << >>
    /\ UNCHANGED << tree, calls, fsVars, harnessVars >>

Call ==
    \E op \in Objects(tree) :
        \E a \in [ext : ExtArgs, linkify : Flags, index : Flags, matrix : Flags] :
            Publish(op[1], op[2], a)

Next ==
    \/ Call
    \/ ClearAssets
    \/ CopyTemplate
    \/ PublishDocument
    \/ PdfBegin
    \/ PdfDocument
    \/ PdfFinish
    \/ CreateIndex
    \/ CreateMatrix
    \/ Return
    \/ Exit

Spec == Init /\ [][Next]_vars

----------------------------------------------------------------------------
(* check(ext) applied to drawn extensions *)

ExtAlphabet == {".", "t", "x", "m", "d"}

ExtInputs ==
    {None, TXT, MD, HTML, DOTPDF}
    \cup UNION {[1..n -> ExtAlphabet] : n \in 0..MaxExtLen}

InitCheck ==
    /\ Idle(Tree(<<>>, <<>>, NoResults))
    /\ fn \in [name : {"check"}, arg : ExtInputs]
    /\ out = NoneObject

CheckExt ==
    /\ fn.name = "check"
    /\ out = NoneObject
    /\ out' = check(fn.arg)
    /\ UNCHANGED << tree, callVars, count, i, pdfVars, rendered, written, result,
                    pc, calls, fsVars, files0, assets0, fn >>

SpecCheck == InitCheck /\ [][CheckExt]_vars

----------------------------------------------------------------------------
(* publish(tree, path, ext='.pdf') over trees of up to three documents *)

MaxPdfDocs == 3

PdfPrefixes == {REQ, TEST, USECASE}

PdfTrees ==
    {Tree([k \in 1..Len(q) |-> DocumentOf(q[k], PlainLinks)], <<>>, NoResults) :
        q \in InjectiveSeqs(PdfPrefixes, MaxPdfDocs)}

InitPdf ==
    /\ \E t \in PdfTrees : Idle(t)
    /\ fn = NoHarness
    /\ out = NoneObject

CallPdf ==
    \E a \in [ext : {DOTPDF}, linkify : Flags, index : Flags, matrix : Flags] :
        Publish(tree, OUT, a)

NextPdf ==
    \/ CallPdf
    \/ ClearAssets
    \/ CopyTemplate
    \/ PdfBegin
    \/ PdfDocument
    \/ PdfFinish
    \/ CreateIndex
    \/ CreateMatrix
    \/ Return
    \/ Exit

SpecPdf == InitPdf /\ [][NextPdf]_vars

----------------------------------------------------------------------------
(* _lines_index(filenames, tree) applied to drawn trees *)

SubsetsUpTo(S, n) == {x \in SUBSET S : Cardinality(x) <= n}

\* requirements link to use cases and risks, tests to requirements and use
\* cases; every item has at most MaxLinks links
LinkChoices ==
    {[u \in Universe |->
        IF u = REQ1 THEN c[1] ELSE IF u = REQ2 THEN c[2]
        ELSE IF u = TEST1 THEN c[3] ELSE IF u = TEST2 THEN c[4] ELSE {}] :
     c \in SubsetsUpTo({USECASE1, USECASE2, RISK1}, MaxLinks)
           \X SubsetsUpTo({USECASE1, USECASE2, RISK1}, MaxLinks)
           \X SubsetsUpTo({REQ1, REQ2, USECASE1}, MaxLinks)
           \X SubsetsUpTo({REQ1, REQ2, USECASE1}, MaxLinks)}

\* the result file: absent, or holding three results of TEST1
ResultChoices == {NoResults, (TEST1 :> << "passed", "failure", "passed" >>)}

LinkedDocuments(links) ==
    << DocumentOf(REQ, links), DocumentOf(TEST, links),
       DocumentOf(USECASE, links), DocumentOf(RISK, links) >>

LinkedTrees ==
    {Tree(LinkedDocuments(l), <<>>, r) : l \in LinkChoices, r \in ResultChoices}

\* the names of the files a tree publish to .html leaves in the directory
HtmlNames(t) == {d.prefix \o HTML : d \in Range(t.documents)}

\* the tree of two items: REQ1 without links, TEST1 linking to REQ1
ScenarioTree ==
    Tree(<< Document(REQ, << Item(REQ1, 1, {}) >>, {}),
            Document(TEST, << Item(TEST1, 1, {REQ1}) >>, {}) >>, <<>>, NoResults)

\* trees with a heading and a role document, requirements that link to
\* requirements and roles, and a test that links to a heading
CategoryTrees ==
    {Tree(<< Document(HEAD, << Item(Uid(HEAD, 1), 1, {USECASE1}) >>, {}),
             Document(REQ, << Item(REQ1, 1, a), Item(REQ2, 2, b) >>, {}),
             Document(ROLE, << Item(Uid(ROLE, 1), 1, {}) >>, {}),
             Document(TEST, << Item(TEST1, 1, c) >>, {}),
             Document(USECASE, << Item(USECASE1, 1, {}) >>, {}) >>, <<>>, NoResults) :
        a \in SUBSET {USECASE1, Uid(ROLE, 1)},
        b \in SUBSET {USECASE1, REQ1},
        c \in {{Uid(HEAD, 1)}, {REQ2}, {REQ1, Uid(ROLE, 1)}}}

InitIndex ==
    /\ \E t \in LinkedTrees \cup PublishTrees \cup {ScenarioTree} \cup CategoryTrees : Idle(t)
    /\ fn = [name |-> "_lines_index", arg |-> None]
    /\ out = NoneObject

LinesIndex ==
    /\ fn.name = "_lines_index"
    /\ out = NoneObject
    /\ out' = _lines_index(HtmlNames(tree), tree, FALSE)
    /\ UNCHANGED << tree, callVars, count, i, pdfVars, rendered, written, result,
                    pc, calls, fsVars, files0, assets0, fn >>

SpecIndex == InitIndex /\ [][LinesIndex]_vars

----------------------------------------------------------------------------
(* _matrix_content(tree) applied to drawn traceability rows *)

\* Tree.get_traceability(): rows of one cell per document of the tree, a
\* cell holding an item of that document or None
TraceRows(documents) ==
    {row \in [1..Len(documents) -> AllItems([documents |-> documents]) \cup {NoneObject}] :
        \A c \in 1..Len(documents) :
            row[c] = NoneObject \/ row[c] \in Range(documents[c].items)}

TraceTrees ==
    UNION {
        LET documents == [k \in 1..Len(q) |-> DocumentOf(q[k], PlainLinks)]
        IN  {Tree(documents, tr, NoResults) :
                tr \in UNION {[1..n -> TraceRows(documents)] : n \in 0..MaxTraceRows}}
        : q \in InjectiveSeqs(PublishPrefixes, MaxDocs)}

InitCsv ==
    /\ \E t \in TraceTrees : Idle(t)
    /\ fn = [name |-> "_matrix_content", arg |-> None]
    /\ out = NoneObject

MatrixContent ==
    /\ fn.name = "_matrix_content"
    /\ out = NoneObject
    /\ out' = [kind |-> "csv", rows |-> _matrix_content(tree)]
    /\ UNCHANGED << tree, callVars, count, i, pdfVars, rendered, written, result,
                    pc, calls, fsVars, files0, assets0, fn >>

SpecCsv == InitCsv /\ [][MatrixContent]_vars

----------------------------------------------------------------------------
(* The "implemented" badge of the Markdown renderers and of the matrix *)

MaxPad == 1
MaxInt == 2

\* Python values of item.data: None, a bool, an int or a str
PyNone == [type |-> "NoneType", b |-> FALSE, n |-> 0, s |-> <<>>]
PyBool(b) == [type |-> "bool", b |-> b, n |-> 0, s |-> <<>>]
PyInt(n) == [type |-> "int", b |-> FALSE, n |-> n, s |-> <<>>]
PyStr(x) == [type |-> "str", b |-> FALSE, n |-> 0, s |-> x]

DecDigits == << "0", "1", "2", "3", "4", "5", "6", "7", "8", "9" >>

\* str(n) of a natural number
RECURSIVE IntStr(_)
IntStr(n) ==
    IF n < 10 THEN << DecDigits[n + 1] >>
    ELSE IntStr(n \div 10) \o << DecDigits[(n % 10) + 1] >>

\* str(v)
pystr(v) ==
    IF v.type = "NoneType" THEN << "N", "o", "n", "e" >>
    ELSE IF v.type = "bool"
    THEN (IF v.b THEN << "T", "r", "u", "e" >> ELSE << "F", "a", "l", "s", "e" >>)
    ELSE IF v.type = "int" THEN IntStr(v.n)
    ELSE v.s

Whitespace == {" ", "\t", "\n"}

RECURSIVE lstrip(_)
lstrip(x) == IF x # <<>> /\ Head(x) \in Whitespace THEN lstrip(Tail(x)) ELSE x

RECURSIVE rstrip(_)
rstrip(x) ==
    IF x # <<>> /\ x[Len(x)] \in Whitespace THEN rstrip(SubSeq(x, 1, Len(x) - 1)) ELSE x

\* the classification without .strip()
strip_omitted(x) == x

\* str.strip()
strip(x) == rstrip(lstrip(x))

\* the strings of the list [None, False, '', 'false', 'False', "''", '""', '0']
\* (None and False equal no string)
NotImplementedStrings ==
    { <<>>, << "f", "a", "l", "s", "e" >>, << "F", "a", "l", "s", "e" >>,
      << "'", "'" >>, << "\"", "\"" >>, << "0" >> }

\* value in [None, '']
NoneOrEmpty(v) == v.type = "NoneType" \/ (v.type = "str" /\ v.s = <<>>)

\* the badge title, "" when no badge is rendered
Title(implemented) == IF implemented THEN "Implemented" ELSE "Not implemented"

\* _lines_markdown, lines 697-714: the badge joined to the uid of an item
\* that is not a heading, when settings.ENABLE_HEADERS is on
markdown_badge(item, ENABLE_HEADERS) ==
    IF item.heading \/ ~ENABLE_HEADERS THEN ""
    ELSE IF "implemented" \in DOMAIN item.data /\ ~NoneOrEmpty(item.data["implemented"])
    THEN Title(strip(pystr(item.data["implemented"])) \notin NotImplementedStrings)
    ELSE ""

\* _lines_markdown_pdf, lines 951-968
markdown_pdf_badge(item, ENABLE_HEADERS) ==
    IF item.heading \/ ~ENABLE_HEADERS THEN ""
    ELSE IF "implemented" \in DOMAIN item.data /\ ~NoneOrEmpty(item.data["implemented"])
    THEN Title(strip(pystr(item.data["implemented"])) \notin NotImplementedStrings)
    ELSE ""

\* _lines_index, lines 426-439: the badge of the requirement cell
index_badge(requirement) ==
    IF /\ requirement # NoneObject
       /\ "implemented" \in DOMAIN requirement.data
       /\ ~NoneOrEmpty(requirement.data["implemented"])
    THEN Title(strip(pystr(requirement.data["implemented"])) \notin NotImplementedStrings)
    ELSE ""

\* the words tried as values, each also with whitespace around it
Words ==
    NotImplementedStrings \cup
    { << "t", "r", "u", "e" >>, << "T", "r", "u", "e" >>, << "1" >>, << "y", "e", "s" >>,
      << "n", "o" >>, << "0", "0" >>, << "F", "A", "L", "S", "E" >>, << "N", "o", "n", "e" >> }

Pads == UNION {[1..n -> {" ", "\n"}] : n \in 0..MaxPad}

ImplementedValues ==
    {PyNone, PyBool(TRUE), PyBool(FALSE)}
    \cup {PyInt(n) : n \in 0..MaxInt}
    \cup {PyStr(a \o w \o b) : a \in Pads, w \in Words, b \in Pads}

\* item.data with and without the key
DataChoices == { << >> } \cup {("implemented" :> v) : v \in ImplementedValues}

BadgeItems == [data : DataChoices, heading : BOOLEAN]

InitBadge ==
    /\ Idle(Tree(<<>>, <<>>, NoResults))
    /\ fn \in [name : {"implemented"}, arg : BadgeItems, ENABLE_HEADERS : BOOLEAN]
    /\ out = NoneObject

ImplementedBadge ==
    /\ fn.name = "implemented"
    /\ out = NoneObject
    /\ out' = [markdown |-> markdown_badge(fn.arg, fn.ENABLE_HEADERS),
               markdown_pdf |-> markdown_pdf_badge(fn.arg, fn.ENABLE_HEADERS),
               index |-> index_badge(fn.arg)]
    /\ UNCHANGED << tree, callVars, count, i, pdfVars, rendered, written, result,
                    pc, calls, fsVars, files0, assets0, fn >>

SpecBadge == InitBadge /\ [][ImplementedBadge]_vars

----------------------------------------------------------------------------
(* The risk table of the Markdown renderers *)

MaxFactor == 2

\* int(v) of an int or of a string of decimal digits
RECURSIVE ParseInt(_)
ParseInt(x) ==
    IF x = <<>> THEN 0
    ELSE 10 * ParseInt(SubSeq(x, 1, Len(x) - 1))
         + (CHOOSE d \in 0..9 : DecDigits[d + 1] = x[Len(x)])

pyint(v) == IF v.type = "int" THEN v.n ELSE ParseInt(v.s)

Dash == PyStr(<< "-" >>)

\* dict.get(key, None)
get(d, key) == IF key \in DOMAIN d THEN d[key] ELSE PyNone

\* the product with the probability in the place of the severity, as the
\* severity column of the table has it
rpn_probability_twice(risk_rating) ==
    LET detectability == get(risk_rating, "detectability")
        probability == get(risk_rating, "probability")
        severity == get(risk_rating, "severity")
    IN  IF detectability # PyNone /\ probability # PyNone /\ severity # PyNone
        THEN PyInt(pyint(detectability) * pyint(probability) * pyint(probability))
        ELSE Dash

\* lines 726-731 (and 743-748, 984-989, 1001-1006): the Risk Priority Number
rpn(risk_rating) ==
    LET detectability == get(risk_rating, "detectability")
        probability == get(risk_rating, "probability")
        severity == get(risk_rating, "severity")
    IN  IF detectability # PyNone /\ probability # PyNone /\ severity # PyNone
        THEN PyInt(pyint(detectability) * pyint(probability) * pyint(severity))
        ELSE Dash

\* x if x is not None else '-'
OrDash(x) == IF x # PyNone THEN x ELSE Dash

\* lines 726-739: one row of the table; the severity column shows the
\* probability (line 739)
risk_row(label, risk_rating) ==
    [label |-> label,
     detectability |-> OrDash(get(risk_rating, "detectability")),
     probability |-> OrDash(get(risk_rating, "probability")),
     severity |-> OrDash(get(risk_rating, "probability")),
     rpn |-> rpn(risk_rating)]

\* 'key' in item.data and item.data.get('key'): a dict that is not empty
HasRating(data, key) == key \in DOMAIN data /\ DOMAIN data[key] # {}

\* _lines_markdown, lines 724-753: the rows of the risk table of an item
\* that is not a heading
markdown_risk_table(item) ==
    IF item.heading \/ ~HasRating(item.data, "risk-rating") THEN <<>>
    ELSE << risk_row("Before mitigation", item.data["risk-rating"]) >>
         \o (IF HasRating(item.data, "residual-risk-rating")
             THEN << risk_row("After mitigation", item.data["residual-risk-rating"]) >>
             ELSE <<>>)

\* _lines_markdown_pdf, lines 982-1011
markdown_pdf_risk_table(item) ==
    IF item.heading \/ ~HasRating(item.data, "risk-rating") THEN <<>>
    ELSE << risk_row("Before mitigation", item.data["risk-rating"]) >>
         \o (IF HasRating(item.data, "residual-risk-rating")
             THEN << risk_row("After mitigation", item.data["residual-risk-rating"]) >>
             ELSE <<>>)

Factors == {"detectability", "probability", "severity"}

\* a factor is None, an int or a string of digits
FactorValues ==
    {PyNone, PyStr(IntStr(MaxFactor + 1))} \cup {PyInt(n) : n \in 0..MaxFactor}

\* the ratings: any of the three factors may be left out
Ratings == UNION {[D -> FactorValues] : D \in SUBSET Factors}

\* the residual ratings tried with every rating
ResidualRatings ==
    {r \in Ratings : \A k \in DOMAIN r : r[k] \in {PyNone, PyInt(MaxFactor), PyStr(IntStr(MaxFactor + 1))}}

RiskData ==
    { << >> }
    \cup {("risk-rating" :> r) : r \in Ratings}
    \cup {("residual-risk-rating" :> r) : r \in ResidualRatings}
    \cup {("risk-rating" :> r) @@ ("residual-risk-rating" :> q) : r \in Ratings, q \in ResidualRatings}

InitRisk ==
    /\ Idle(Tree(<<>>, <<>>, NoResults))
    /\ fn \in [name : {"risk_table"}, arg : [data : RiskData, heading : BOOLEAN]]
    /\ out = NoneObject

RiskTable ==
    /\ fn.name = "risk_table"
    /\ out = NoneObject
    /\ out' = [markdown |-> markdown_risk_table(fn.arg),
               markdown_pdf |-> markdown_pdf_risk_table(fn.arg)]
    /\ UNCHANGED << tree, callVars, count, i, pdfVars, rendered, written, result,
                    pc, calls, fsVars, files0, assets0, fn >>

SpecRisk == InitRisk /\ [][RiskTable]_vars

----------------------------------------------------------------------------
(* The link sections of the Text and the Markdown renderer *)

\* Item.links: the uids linked to, sorted
links(item) == SetToSeq(item.links)

\* Item.find_child_links(skip_parent_check=True): the uids of the items
\* that link to the item, sorted
find_child_links(t, item) == SetToSeq(Range(find_child_items(t, item)))

\* sorted(items, key=lambda x: x.uid)
sorted_by_uid(q) == SetToSeq(Range(q))

\* a section of links: the direction it belongs to, its label, the links
\* in the order written
Section(direction, label, q) == [direction |-> direction, label |-> label, links |-> q]

\* a section is written only for a list that is not empty
Sections(direction, label, q) ==
    IF q = <<>> THEN <<>> ELSE << Section(direction, label, q) >>

\* _lines_text, lines 617-645: the link sections of an item that is not a
\* heading
text_link_sections(t, item, stakeholder_links, PUBLISH_CHILD_LINKS) ==
    LET label == IF PUBLISH_CHILD_LINKS
                 THEN (IF startswith(str(item), TEST) THEN "Requirements:" ELSE "Parent links:")
                 ELSE "Links: "
        child == find_child_links(t, item)
        child_links == SelectSeq(child, LAMBDA l : ~startswith(l, TEST))
        test_links == SelectSeq(child, LAMBDA l : startswith(l, TEST))
    IN  Sections("parent", label, links(item))
        \o (IF PUBLISH_CHILD_LINKS
            THEN Sections("child", "Child links: ", child_links)
                 \o Sections("child", "Tests: ", test_links)
                 \o Sections("stakeholder", "Linked to stakeholder: ", stakeholder_links)
            ELSE <<>>)

\* the risk list filtered by the prefix of the use cases
md_risk_links_by_usecase(items2) == SelectSeq(items2, LAMBDA l : startswith(l, USECASE))

\* lines 796-800: the four lists an item list is split into
md_parent_links(items2) ==
    SelectSeq(items2, LAMBDA l :
        ~(startswith(l, TEST) \/ startswith(l, USECASE) \/ startswith(l, RISK)))

md_use_case_links(items2) == SelectSeq(items2, LAMBDA l : startswith(l, USECASE))

md_test_links(items2) == SelectSeq(items2, LAMBDA l : startswith(l, TEST))

md_risk_links(items2) == SelectSeq(items2, LAMBDA l : startswith(l, RISK))

\* the four sections of one direction, lines 801-824
md_sections(direction, items2, use_cases, parents, tests, risks) ==
    Sections(direction, use_cases, md_use_case_links(items2))
    \o Sections(direction, parents, md_parent_links(items2))
    \o Sections(direction, tests, md_test_links(items2))
    \o Sections(direction, risks, md_risk_links(items2))

\* _lines_markdown, lines 793-896: the link sections of an item that is
\* not a heading (linkify off: a link is the uid)
markdown_link_sections(t, item, stakeholder_links, PUBLISH_CHILD_LINKS) ==
    LET child_label == IF startswith(str(item), RISK)
                       THEN "Requirements for mitigating the risk:"
                       ELSE IF startswith(str(item), USECASE) THEN "Requirements:"
                       ELSE "Child links:"
    IN  (IF links(item) # <<>>
         THEN md_sections("parent", sorted_by_uid(parent_items(t, item)),
                          "Use cases:", "Parent links:", "Tests:", "Risks:")
         ELSE <<>>)
        \o (IF PUBLISH_CHILD_LINKS
            THEN md_sections("child", sorted_by_uid(find_child_items(t, item)),
                             "Use cases:", child_label, "Tests:", "Risks:")
                 \o md_sections("stakeholder", sorted_by_uid(stakeholder_links),
                                "Use cases linked to stakeholder:",
                                "Requirements linked to stakeholder:",
                                "Tests linked to stakeholder:",
                                "Risks linked to stakeholder:")
            ELSE <<>>)

\* the trees with links, without a result file
LinkTrees == {Tree(LinkedDocuments(l), <<>>, NoResults) : l \in LinkChoices}

\* Item.find_stakeholder_items(): none, or a use case and a requirement
StakeholderChoices == { <<>>, << REQ2, USECASE1 >> }

InitLinks ==
    /\ \E t \in LinkTrees : Idle(t)
    /\ fn \in [name : {"link_sections"}, arg : Universe,
               stakeholder_links : StakeholderChoices, PUBLISH_CHILD_LINKS : BOOLEAN]
    /\ out = NoneObject

LinkSections ==
    /\ fn.name = "link_sections"
    /\ out = NoneObject
    /\ \E item \in {x \in AllItems(tree) : x.uid = fn.arg} :
           out' = [text |-> text_link_sections(tree, item, fn.stakeholder_links,
                                                fn.PUBLISH_CHILD_LINKS),
                   markdown |-> markdown_link_sections(tree, item, fn.stakeholder_links,
                                                       fn.PUBLISH_CHILD_LINKS)]
    /\ UNCHANGED << tree, callVars, count, i, pdfVars, rendered, written, result,
                    pc, calls, fsVars, files0, assets0, fn >>

SpecLinks == InitLinks /\ [][LinkSections]_vars

----------------------------------------------------------------------------
(* _lines_html(obj): the page wrapper *)

MaxItems == 2

\* what the renderer is given: an Item, a list of Items or a Document
PyItem(item) == [type |-> "Item", value |-> << item >>, document |-> NoneObject]
PyList(items) == [type |-> "list", value |-> items, document |-> NoneObject]
PyDocument(document) == [type |-> "Document", value |-> document.items, document |-> document]

\* iter(obj) succeeds: lists and Documents are iterable, an Item is not
iterable(o) == o.type \in {"list", "Document"}

\* the attributes read for the template: obj.parent and obj.name
hasattr(o, name) == o.type = "Document" /\ name \in {"parent", "name"}

\* iter_items(obj): the items of a Document, the item itself, the list
iter_items(o) == o.value

\* lines 1354-1361: body and table of contents, converted from Markdown
html_body(o) == [k \in 1..Len(iter_items(o)) |-> iter_items(o)[k].uid]

html_toc(o, with_toc) == IF with_toc THEN html_body(o) ELSE <<>>

\* _lines_html(obj, toc=...), lines 1334-1379: the exception raised, and the
\* one string yielded: the page of the template or the body
_lines_html(o, with_toc) ==
    LET document == iterable(o)
        body == html_body(o)
    IN  IF document
        THEN IF hasattr(o, "parent") /\ hasattr(o, "name")
             THEN [raised |-> "",
                   yielded |-> << [kind |-> "page", body |-> body, toc |-> html_toc(o, with_toc),
                                   document |-> o.document.prefix] >>]
             ELSE [raised |-> "AttributeError", yielded |-> <<>>]
        ELSE [raised |-> "",
              yielded |-> << [kind |-> "body", body |-> body, toc |-> <<>>, document |-> None] >>]

HtmlItems == AllItems(Tree(LinkedDocuments(PlainLinks), <<>>, NoResults))

HtmlObjects ==
    {PyItem(it) : it \in HtmlItems}
    \cup {PyList(q) : q \in UNION {[1..n -> HtmlItems] : n \in 0..MaxItems}}
    \cup {PyDocument(d) : d \in Range(LinkedDocuments(PlainLinks))}

InitHtml ==
    /\ Idle(Tree(<<>>, <<>>, NoResults))
    /\ fn \in [name : {"_lines_html"}, arg : HtmlObjects, toc : BOOLEAN]
    /\ out = NoneObject

LinesHtml ==
    /\ fn.name = "_lines_html"
    /\ out = NoneObject
    /\ out' = _lines_html(fn.arg, fn.toc)
    /\ UNCHANGED << tree, callVars, count, i, pdfVars, rendered, written, result,
                    pc, calls, fsVars, files0, assets0, fn >>

SpecHtml == InitHtml /\ [][LinesHtml]_vars

----------------------------------------------------------------------------
(* The level labels of the combined PDF document *)

MaxLevel == 11
MaxDepth == 3
MaxCount == 3

\* str(level) of an item's level: its numbers joined by '.'
RECURSIVE LevelStr(_)
LevelStr(value) ==
    IF Len(value) = 1 THEN IntStr(value[1])
    ELSE LevelStr(SubSeq(value, 1, Len(value) - 1)) \o << "." >> \o IntStr(value[Len(value)])

\* _format_level(level), lines 1168-1173
_format_level(level) ==
    LET text == LevelStr(level)
    IN  IF endswith(text, << ".", "0" >>) /\ Len(text) > 3
        THEN SubSeq(text, 1, Len(text) - 2)
        ELSE text

\* lines 927-930 (and 131-135 for the table of contents): the label of an
\* item of the count-th included document
pdf_level(level, n) ==
    LET text == _format_level(level)
        renumbered == IntStr(n) \o SubSeq(text, 2, Len(text))
    IN  IF endswith(renumbered, << ".", "0" >>)
        THEN SubSeq(renumbered, 1, Len(renumbered) - 2)
        ELSE renumbered

\* levels: numbers from 1, the last one 0 for a heading
Levels ==
    UNION {{v \in [1..n -> 0..MaxLevel] :
                \A k \in 1..n : v[k] = 0 => (k = n /\ n > 1)} : n \in 1..MaxDepth}

InitLevel ==
    /\ Idle(Tree(<<>>, <<>>, NoResults))
    /\ fn \in [name : {"level"}, arg : Levels, count : 1..MaxCount]
    /\ out = NoneObject

PdfLevel ==
    /\ fn.name = "level"
    /\ out = NoneObject
    /\ out' = [label |-> pdf_level(fn.arg, fn.count)]
    /\ UNCHANGED << tree, callVars, count, i, pdfVars, rendered, written, result,
                    pc, calls, fsVars, files0, assets0, fn >>

SpecLevel == InitLevel /\ [][PdfLevel]_vars

----------------------------------------------------------------------------
(* The lines of one item in _lines_markdown and in _lines_markdown_pdf.
   A line is the sequence of the pieces it is formatted from: the literal
   parts of the format strings and the characters of the values. *)

\* bool(v) of a value of item.data
truthy(v) ==
    IF v.type = "NoneType" THEN FALSE
    ELSE IF v.type = "bool" THEN v.b
    ELSE IF v.type = "int" THEN v.n # 0
    ELSE v.s # <<>>

\* '#' * item.depth
Hashes(n) == [k \in 1..n |-> "#"]

\* _format_md_attr_list(item, linkify), lines 1176-1178
_format_md_attr_list(item, l) ==
    IF l THEN << " {#" >> \o item.uid \o << " }" >> ELSE <<>>

\* the call with the renderer's own linkify in place of True
md_attr_list_if_linkify(item, l) == _format_md_attr_list(item, l)

\* lines 691 and 722: the attribute list of _lines_markdown
md_attr_list(item, l) == _format_md_attr_list(item, TRUE)

\* the attribute list without the test of linkify
pdf_attr_list_always(item, l) == _format_md_attr_list(item, TRUE)

\* lines 943-945 and 978-980: the attribute list of _lines_markdown_pdf
pdf_attr_list(item, l) == IF l THEN _format_md_attr_list(item, TRUE) ELSE <<>>

\* _format_md_item_link(item, linkify), lines 1264-1275, for an Item
_format_md_item_link(item, l) ==
    IF l
    THEN IF item.header # <<>>
         THEN << "[" >> \o item.header \o << "](" >> \o item.prefix \o << ".html#" >>
              \o item.uid \o << " \"" >> \o item.text \o << "\")" >>
         ELSE << "[" >> \o item.uid \o << "](" >> \o item.prefix \o << ".html#" >>
              \o item.uid \o << " \"" >> \o item.text \o << "\")" >>
    ELSE item.uid

\* _format_md_links(items, linkify), lines 1255-1261: joined by ', '
RECURSIVE _format_md_links(_, _)
_format_md_links(items, l) ==
    IF items = <<>> THEN <<>>
    ELSE IF Len(items) = 1 THEN _format_md_item_link(items[1], l)
    ELSE _format_md_item_link(items[1], l) \o << ", " >> \o _format_md_links(Tail(items), l)

\* _format_md_label_links(label, links, linkify), lines 1294-1299
_format_md_label_links(label, q, l) ==
    IF l THEN << "*", label, "* " >> \o q
    ELSE << "*", label, " " >> \o q \o << "*" >>

\* the item a link leads to: no header, a one-word text, in the document
\* its uid names
LinkTarget(uid) ==
    [uid |-> uid, header |-> <<>>, prefix |-> SubSeq(uid, 1, Len(uid) - 1), text |-> << "t" >>]

\* lines 683-690 and 935-942: the heading line of a heading item
heading_standard(item, level, settings) ==
    LET t == IF item.text # <<>> THEN item.text[1] ELSE <<>>
    IN  IF settings.PUBLISH_HEADING_LEVELS
        THEN Hashes(item.depth) \o << " " >> \o level \o << " " >> \o t
        ELSE Hashes(item.depth) \o << " " >> \o t

\* lines 696-714 and 950-968: header, uid and implemented badge
headed_uid(item, settings) ==
    LET named == IF item.header # <<>>
                 THEN IF startswith(item.uid, HEAD) THEN item.header
                      ELSE item.header \o << " <small>" >> \o item.uid \o << "</small>" >>
                 ELSE item.uid
        badge == markdown_badge(item, settings.ENABLE_HEADERS)
    IN  IF ~settings.ENABLE_HEADERS THEN item.uid
        ELSE IF badge # ""
        THEN named \o << " <small><span class=\"label\" title=\"", badge, "\">", "</span></small>" >>
        ELSE named

\* lines 969-971: the priority next to the uid
inline_prio(item, settings) ==
    IF settings.ENABLE_HEADERS /\ "prio" \in DOMAIN item.data /\ truthy(item.data["prio"])
    THEN << " <small>(" >> \o strip(pystr(item.data["prio"])) \o << ")</small>" >>
    ELSE <<>>

\* lines 716-720 and 973-977
body_standard(item, level, u, settings) ==
    IF settings.PUBLISH_BODY_LEVELS
    THEN Hashes(item.depth) \o << " " >> \o level \o << " " >> \o u
    ELSE Hashes(item.depth) \o << " " >> \o u

\* lines 725-729 and 983-987: the text after a break
text_lines(item) ==
    IF item.text # <<>> THEN << <<>> >> \o item.text ELSE <<>>

\* lines 776-779: the priority on a line of its own
prio_lines(item) ==
    IF "prio" \in DOMAIN item.data /\ truthy(item.data["prio"])
    THEN << <<>>, << "Priority: " >> \o strip(pystr(item.data["prio"])) >>
    ELSE <<>>

\* one list of lines 793-824 and 1051-1082: a break and the labelled links
link_lines(label, uids, l) ==
    IF uids # <<>>
    THEN << <<>>,
            _format_md_label_links(label,
                _format_md_links([k \in 1..Len(uids) |-> LinkTarget(uids[k])], l), l) >>
    ELSE <<>>

\* lines 793-824 and 1051-1082: the parent links of an item
parent_link_lines(item, l) ==
    IF item.links # <<>>
    THEN << <<>> >>
         \o link_lines("Use cases:", md_use_case_links(item.links), l)
         \o link_lines("Parent links:", md_parent_links(item.links), l)
         \o link_lines("Tests:", md_test_links(item.links), l)
         \o link_lines("Risks:", md_risk_links(item.links), l)
    ELSE <<>>

\* _lines_markdown(item, linkify=...), lines 674-824, of an item without
\* risk rating, reference, stakeholder and Jira issues
_lines_markdown(item, l, settings) ==
    LET level == _format_level(item.level)
    IN  IF item.heading
        THEN << heading_standard(item, level, settings) \o md_attr_list(item, l) >>
             \o (IF item.text # <<>> THEN Tail(item.text) ELSE <<>>)
        ELSE << body_standard(item, level, headed_uid(item, settings), settings)
                    \o md_attr_list(item, l) >>
             \o text_lines(item)
             \o prio_lines(item)
             \o parent_link_lines(item, l)

\* _lines_markdown_pdf(item, count, linkify=...), lines 924-1082, of an item
\* without risk rating, reference, stakeholder and Jira issues
_lines_markdown_pdf(item, n, l, settings) ==
    LET level == pdf_level(item.level, n)
    IN  IF item.heading
        THEN << heading_standard(item, level, settings) \o pdf_attr_list(item, l) >>
             \o (IF item.text # <<>> THEN Tail(item.text) ELSE <<>>)
        ELSE << body_standard(item, level,
                              headed_uid(item, settings) \o inline_prio(item, settings), settings)
                    \o pdf_attr_list(item, l) >>
             \o text_lines(item)
             \o parent_link_lines(item, l)

\* the items rendered: a heading or a body item, at each depth, with and
\* without header, text, priority, implemented flag and parent links
MdData ==
    { << >>, ("prio" :> PyNone), ("prio" :> PyStr(<<>>)), ("prio" :> PyInt(0)),
      ("prio" :> PyInt(1)), ("prio" :> PyStr(<< " ", "A" >>)),
      ("prio" :> PyStr(<< "A" >>) @@ "implemented" :> PyBool(TRUE)) }

MdItems ==
    [uid : {REQ1, Uid(HEAD, 1)},
     depth : 1..MaxDepth,
     level : {<< 1, 0 >>, << 2, 1 >>},
     heading : BOOLEAN,
     header : {<<>>, << "H" >>},
     text : {<<>>, << << "a" >>, << "b" >> >>},
     data : MdData,
     links : {<<>>, << REQ2 >>, << REQ2, USECASE1 >>}]

MdSettings ==
    [ENABLE_HEADERS : BOOLEAN, PUBLISH_HEADING_LEVELS : {TRUE},
     PUBLISH_BODY_LEVELS : BOOLEAN]

InitMarkdown ==
    /\ Idle(Tree(<<>>, <<>>, NoResults))
    /\ fn \in [name : {"_lines_markdown"}, arg : MdItems, linkify : BOOLEAN,
               count : {1}, settings : MdSettings]
    /\ out = NoneObject

LinesMarkdown ==
    /\ fn.name = "_lines_markdown"
    /\ out = NoneObject
    /\ out' = [markdown |-> _lines_markdown(fn.arg, fn.linkify, fn.settings),
               markdown_pdf |-> _lines_markdown_pdf(fn.arg, fn.count, fn.linkify, fn.settings)]
    /\ UNCHANGED << tree, callVars, count, i, pdfVars, rendered, written, result,
                    pc, calls, fsVars, files0, assets0, fn >>

SpecMarkdown == InitMarkdown /\ [][LinesMarkdown]_vars

----------------------------------------------------------------------------
(* The search entries of index.html: lines 278-301 *)

MaxTextLen == 3

UpperCase ==
    << "A", "B", "C", "D", "E", "F", "G", "H", "I", "J", "K", "L", "M",
       "N", "O", "P", "Q", "R", "S", "T", "U", "V", "W", "X", "Y", "Z" >>

LowerCase ==
    << "a", "b", "c", "d", "e", "f", "g", "h", "i", "j", "k", "l", "m",
       "n", "o", "p", "q", "r", "s", "t", "u", "v", "w", "x", "y", "z" >>

\* str.lower()
lower(x) ==
    [k \in 1..Len(x) |->
        IF \E j \in 1..26 : UpperCase[j] = x[k]
        THEN LowerCase[CHOOSE j \in 1..26 : UpperCase[j] = x[k]]
        ELSE x[k]]

\* str.replace(old, new) for a one-character old
RECURSIVE replace(_, _, _)
replace(x, old, new) ==
    IF x = <<>> THEN <<>>
    ELSE (IF Head(x) = old THEN new ELSE << Head(x) >>) \o replace(Tail(x), old, new)

\* line 283: text = item.text.lower().replace('\n', '\\n').replace("'", "\\'")
search_text(item) ==
    replace(replace(lower(item.text), "\n", << "\\", "n" >>), "'", << "\\", "'" >>)

\* line 291: content = f"{item.uid} {stakeholder or ''} {text}"
search_content(item) ==
    item.uid \o << " " >>
    \o (IF item.stakeholder # None THEN item.stakeholder ELSE <<>>)
    \o << " " >> \o search_text(item)

\* String.prototype.includes
includes(x, v) ==
    \E k \in 0..(Len(x) - Len(v)) : SubSeq(x, k + 1, k + Len(v)) = v

\* lines 295-296: the entry is kept when its text includes every word of
\* the lowercased query (a query without blanks is one word)
search_matches(entry, query) == includes(entry.text, lower(query))

TextAlphabet == {"r", "E", "\n", "'"}

Texts == UNION {[1..n -> TextAlphabet] : n \in 0..MaxTextLen}

SearchItems ==
    [uid : {REQ1, << "r", "e", "q", "1" >>},
     stakeholder : {None, Uid(ROLE, 1)},
     text : Texts]

InitSearch ==
    /\ Idle(Tree(<<>>, <<>>, NoResults))
    /\ fn \in [name : {"search"}, arg : SearchItems]
    /\ out = NoneObject

SearchEntry ==
    /\ fn.name = "search"
    /\ out = NoneObject
    /\ out' = [uid |-> fn.arg.uid, text |-> search_content(fn.arg)]
    /\ UNCHANGED << tree, callVars, count, i, pdfVars, rendered, written, result,
                    pc, calls, fsVars, files0, assets0, fn >>

SpecSearch == InitSearch /\ [][SearchEntry]_vars

----------------------------------------------------------------------------
(* Properties of check() and of the orchestration of publish() *)

Supported == {TXT, MD, HTML, DOTPDF}

\* the call publish() is executing, past the format check
Started == pc # "idle" /\ result.raised # "DoorstopError"

\* C1: check(ext) returns the line generator of ".txt", ".md", ".html" and
\* ".pdf"; for any other value, None and the empty string included, it
\* raises DoorstopError with a message listing exactly those four
\* extensions as the options.
C1_CheckDispatch ==
    (fn.name = "check" /\ out # NoneObject) =>
        /\ fn.arg = <<".", "t", "x", "t">> => (out.raised = "" /\ out.gen = "_lines_text")
        /\ fn.arg = <<".", "m", "d">> => (out.raised = "" /\ out.gen = "_lines_markdown")
        /\ fn.arg = <<".", "h", "t", "m", "l">> => (out.raised = "" /\ out.gen = "_lines_html")
        /\ fn.arg = <<".", "p", "d", "f">> => (out.raised = "" /\ out.gen = "_lines_markdown_pdf")
        /\ fn.arg \notin Supported =>
               /\ out.raised = "DoorstopError"
               /\ out.msg.options = << <<".", "t", "x", "t">>, <<".", "m", "d">>,
                                       <<".", "h", "t", "m", "l">>, <<".", "p", "d", "f">> >>

\* the empty string is rejected and the four options are listed
C1_Witness ==
    /\ fn.name = "check"
    /\ out # NoneObject
    /\ fn.arg = <<>>
    /\ out.raised = "DoorstopError"
    /\ Len(out.msg.options) = 4

\* C2: publish() takes the format from the ext argument when it is given
\* (neither None nor empty), else from the suffix of the path, else ".html";
\* on an unsupported format it raises DoorstopError with the assets
\* directory and every file as they were before the call.
C2_FormatResolvedThenChecked ==
    pc # "idle" =>
        /\ ext = IF args.ext # None /\ args.ext # <<>> THEN args.ext
                 ELSE IF splitext(path) # <<>> THEN splitext(path)
                 ELSE <<".", "h", "t", "m", "l">>
        /\ ext \notin Supported =>
               /\ pc = "raised"
               /\ result.raised = "DoorstopError"
               /\ written = {}
               /\ files = files0
               /\ assets = assets0

\* the format comes from the path, is unsupported, and the call fails with
\* the assets directory of an earlier publish left in place
C2_Witness ==
    /\ pc = "raised"
    /\ result.raised = "DoorstopError"
    /\ args.ext = None
    /\ ext = <<".", "x">>
    /\ assets # << >>
    /\ assets = assets0
    /\ files = files0

\* C3: publishing a tree without documents returns None and writes no
\* output file, whatever the supported format.
C3_EmptyTreeWritesNothing ==
    (pc = "returned" /\ is_tree(obj) /\ Len(obj.documents) = 0) =>
        /\ result.value = None
        /\ written = {}

\* C4: publish() returns the output path when the call wrote at least one
\* output file and None when it wrote none, a .pdf publish of a tree whose
\* only documents have the prefix TEST included.
C4_PathIffFilesWritten ==
    pc = "returned" =>
        /\ written # {} => result.value = path
        /\ written = {} => result.value = None

\* the values the arguments resolve to when publish() starts
ResolvedLinkify ==
    IF args.linkify = "None" THEN is_tree(obj) /\ ext \in {HTML, MD, DOTPDF}
    ELSE args.linkify = "True"

ResolvedIndex ==
    IF args.index = "None" THEN is_tree(obj) /\ ext = HTML ELSE args.index = "True"

ResolvedMatrix ==
    IF args.matrix = "None" THEN is_tree(obj) ELSE args.matrix = "True"

\* C5 as written: linkify, index and matrix default by object kind and
\* format, and a value passed explicitly is the value publish() uses.
C5_ArgumentsUsedUnchanged ==
    Started =>
        /\ linkify = ResolvedLinkify
        /\ index = ResolvedIndex
        /\ matrix = ResolvedMatrix
        /\ \A k \in 1..Len(rendered) : rendered[k].linkify = ResolvedLinkify

\* C5, amended: the arguments resolve as stated and index and matrix are
\* used unchanged; linkify is used unchanged for every format but ".pdf",
\* where publish() sets it to false before any document is rendered.
C5_DefaultsExceptPdfLinkify ==
    Started =>
        /\ index = ResolvedIndex
        /\ matrix = ResolvedMatrix
        /\ (ext # DOTPDF \/ pc \in {"assets", "template", "pdf"}) => linkify = ResolvedLinkify
        /\ (ext = DOTPDF /\ pc \notin {"assets", "template", "pdf"}) => ~linkify
        /\ \A k \in 1..Len(rendered) :
               rendered[k].linkify = (ext # DOTPDF /\ ResolvedLinkify)

\* a .pdf publish asked to linkify has rendered a document without links
C5_Witness ==
    /\ pc = "returned"
    /\ ext = DOTPDF
    /\ args.linkify = "True"
    /\ Len(rendered) > 0
    /\ ~rendered[1].linkify

\* the output directory holds an HTML file other than the index
HasHtmlPage ==
    \E f \in files :
        dirname(f) = path /\ endswith(basename(f), HTML) /\ basename(f) # INDEX

\* publish() is past the index step of a tree publish
IndexStepDone == pc \in {"matrix", "return", "returned"} /\ is_tree(obj)

\* C6 as written: a tree publish with the index in effect that published a
\* document writes index.html; with the index off none is written.
C6_IndexWritten ==
    IndexStepDone =>
        /\ (index /\ count > 0) => join(path, INDEX) \in written
        /\ ~index => join(path, INDEX) \notin written

\* C6, amended: with the index in effect and a document published,
\* index.html is written exactly when the output directory holds an HTML
\* file other than index.html; with the index off none is written.
C6_IndexWrittenWhenHtmlPages ==
    IndexStepDone =>
        /\ (index /\ count > 0) => (join(path, INDEX) \in written <=> HasHtmlPage)
        /\ ~index => join(path, INDEX) \notin written

\* a text publish with the index on writes index.html over the pages an
\* earlier HTML publish left in the directory
C6_Witness ==
    /\ pc = "returned"
    /\ is_tree(obj)
    /\ ext = TXT
    /\ index
    /\ count > 0
    /\ join(path, INDEX) \in written

\* C7: traceability.csv is written exactly when index and matrix are in
\* effect, a document was published and the object is a tree; so no CSV
\* comes with a default .txt or .md publish.
C7_MatrixWritten ==
    pc \in {"return", "returned", "raised"} =>
        /\ join(path, MATRIX) \in written
               <=> (index /\ matrix /\ count > 0 /\ is_tree(obj))
        /\ (ext \in {TXT, MD} /\ args.index = "None") => join(path, MATRIX) \notin written

\* a Markdown publish with the index asked for writes the CSV
C7_Witness ==
    /\ pc = "returned"
    /\ ext = MD
    /\ args.index = "True"
    /\ args.matrix = "None"
    /\ join(path, MATRIX) \in written

\* the number of items of all documents of a tree
TotalItems(t) ==
    Cardinality(UNION {{<<k, j>> : j \in 1..Len(t.documents[k].items)} :
                       k \in 1..Len(t.documents)})

\* C9: the index.html of an HTML tree publish with index and matrix on
\* holds a search array with one entry per item of every document: its
\* length is the total number of items of the tree.
C9_SearchArray ==
    (is_tree(obj) /\ ext = HTML /\ index /\ matrix /\ join(path, INDEX) \in written) =>
        LET search == content[join(path, INDEX)].search
        IN  /\ Len(search) = TotalItems(obj)
            /\ \A d \in Range(obj.documents) : \A item \in Range(d.items) :
                   Cardinality({k \in 1..Len(search) :
                       search[k] = [document |-> d.prefix, uid |-> item.uid]}) = 1

\* the index of a tree of two documents lists the four items of both
C9_Witness ==
    /\ pc = "returned"
    /\ ext = HTML
    /\ index /\ matrix
    /\ join(path, INDEX) \in written
    /\ Len(obj.documents) = 2
    /\ Len(content[join(path, INDEX)].search) = 4

----------------------------------------------------------------------------
(* Properties of the traceability CSV and of the traceability table *)

\* C8: the CSV content is a header row with the prefixes of the documents
\* in tree order, then one row per traceability row, each with one cell
\* per document holding the uid of the item or None.
C8_MatrixContent ==
    (fn.name = "_matrix_content" /\ out # NoneObject) =>
        LET rows == out.rows
            width == Len(tree.documents)
        IN  /\ Len(rows) = 1 + Len(tree.traceability)
            /\ rows[1] = [c \in 1..width |-> tree.documents[c].prefix]
            /\ \A r \in 1..Len(tree.traceability) :
                   /\ Len(rows[r + 1]) = width
                   /\ \A c \in 1..width :
                          rows[r + 1][c] =
                              IF tree.traceability[r][c] = NoneObject THEN None
                              ELSE tree.traceability[r][c].uid

\* two traceability rows over two documents, with an empty cell and an item
C8_Witness ==
    /\ fn.name = "_matrix_content"
    /\ out # NoneObject
    /\ Len(tree.documents) = 2
    /\ Len(out.rows) = 3
    /\ out.rows[2][1] = None
    /\ out.rows[3][1] # None

\* C10: in the traceability table the rowspans of the use-case cells add
\* up to the number of rows; a use-case cell is emitted exactly on the
\* first row of each maximal run of rows with the same use case; and the
\* rows of every use case form one run.
C10_UseCaseRowspans ==
    (fn.name = "_lines_index" /\ out # NoneObject) =>
        LET table == out.table
            n == Len(table)
            uc(k) == table[k].row.use_case
            sum[k \in 0..n] == IF k = 0 THEN 0 ELSE sum[k - 1] + table[k].use_case_rowspan
            first(k) == k = 1 \/ uc(k - 1) # uc(k)
        IN  /\ sum[n] = n
            /\ \A k \in 1..n :
                   /\ table[k].use_case_rowspan > 0 <=> first(k)
                   /\ first(k) =>
                          /\ \A j \in k..(k + table[k].use_case_rowspan - 1) : j <= n /\ uc(j) = uc(k)
                          /\ k + table[k].use_case_rowspan <= n
                                 => uc(k + table[k].use_case_rowspan) # uc(k)
            /\ \A a, b \in 1..n : (a < b /\ uc(a) = uc(b)) => \A j \in a..b : uc(j) = uc(a)

\* a use case spans two requirements, and the table ends with the rows of
\* the items without a use case
C10_Witness ==
    /\ fn.name = "_lines_index"
    /\ out # NoneObject
    /\ Len(out.table) >= 4
    /\ out.table[1].use_case_rowspan = 2
    /\ out.table[1].requirement_rowspan = 1
    /\ out.table[Len(out.table)].row.use_case = None
    /\ Cardinality({out.table[k].row.use_case : k \in 1..Len(out.table)}) >= 3

\* the rows of the traceability matrix of the index computed
MatrixRows == [k \in 1..Len(out.table) |-> out.table[k].row]

\* C11: for the tree of REQ1 (no links) and TEST1 (linking to REQ1) the
\* traceability matrix is exactly the one row (None, REQ1, TEST1, []).
C11_ScenarioOneRow ==
    (fn.name = "_lines_index" /\ out # NoneObject /\ tree = ScenarioTree) =>
        MatrixRows = << [use_case |-> None, requirement |-> REQ1, test_case |-> TEST1,
                         result |-> [none |-> FALSE, badges |-> <<>>]] >>

----------------------------------------------------------------------------
(* Properties of the "implemented" badge *)

\* the three renderers have classified an item whose data holds the key
BadgeRendered ==
    fn.name = "implemented" /\ out # NoneObject /\ "implemented" \in DOMAIN fn.arg.data

\* the value is one of None, False, '', 'false', 'False', "''", '""', '0'
\* (0 equals False)
ListedAsNotImplemented(v) ==
    \/ v.type = "NoneType"
    \/ v.type = "bool" /\ ~v.b
    \/ v.type = "int" /\ v.n = 0
    \/ v.type = "str" /\ v.s \in NotImplementedStrings

\* C12 as written: the badge is 'Not implemented' for each of the listed
\* values and 'Implemented' for every other value, in the Markdown
\* renderer, the Markdown-for-PDF renderer and the traceability matrix alike.
C12_ListedValuesNotImplemented ==
    (BadgeRendered /\ fn.ENABLE_HEADERS /\ ~fn.arg.heading) =>
        LET v == fn.arg.data["implemented"]
            expected == IF ListedAsNotImplemented(v) THEN "Not implemented" ELSE "Implemented"
        IN  /\ out.markdown = expected
            /\ out.markdown_pdf = expected
            /\ out.index = expected

\* the string is one of 'false', 'False', "''", '""', '0' with whitespace
\* around it, or whitespace only
PaddedNotImplemented(x) ==
    \/ \A k \in 1..Len(x) : x[k] \in Whitespace
    \/ \E a, b \in 1..Len(x) :
           /\ a <= b
           /\ SubSeq(x, a, b) \in NotImplementedStrings
           /\ \A k \in (1..(a - 1)) \cup ((b + 1)..Len(x)) : x[k] \in Whitespace

\* C12, amended: None and '' get no badge; any other value is 'Not
\* implemented' exactly when it is False, 0 or a string that, stripped of
\* surrounding whitespace, is '', 'false', 'False', "''", '""' or '0', and
\* 'Implemented' otherwise; the matrix and, for an item that is not a
\* heading with headers enabled, both Markdown renderers agree on it.
C12_BadgeClassification ==
    (fn.name = "implemented" /\ out # NoneObject) =>
        LET present == "implemented" \in DOMAIN fn.arg.data
            v == fn.arg.data["implemented"]
            expected ==
                IF ~present THEN ""
                ELSE IF v.type = "NoneType" \/ (v.type = "str" /\ v.s = <<>>) THEN ""
                ELSE IF \/ v.type = "bool" /\ ~v.b
                        \/ v.type = "int" /\ v.n = 0
                        \/ v.type = "str" /\ PaddedNotImplemented(v.s)
                THEN "Not implemented"
                ELSE "Implemented"
            shown == IF fn.ENABLE_HEADERS /\ ~fn.arg.heading THEN expected ELSE ""
        IN  /\ out.index = expected
            /\ out.markdown = shown
            /\ out.markdown_pdf = shown

\* ' false' is classified as not implemented by all three
C12_Witness ==
    /\ BadgeRendered
    /\ fn.ENABLE_HEADERS /\ ~fn.arg.heading
    /\ fn.arg.data["implemented"] = PyStr(<< " ", "f", "a", "l", "s", "e" >>)
    /\ out.markdown = "Not implemented"
    /\ out.markdown_pdf = "Not implemented"
    /\ out.index = "Not implemented"

----------------------------------------------------------------------------
(* Properties of the risk table *)

\* the number a factor stands for: the int, or the number whose decimal
\* form the string is
FactorNumber(v) ==
    IF v.type = "int" THEN v.n ELSE CHOOSE k \in 0..(10 * (MaxFactor + 1)) : IntStr(k) = v.s

\* all three factors of the rating are there
AllFactors(r) == \A k \in Factors : k \in DOMAIN r /\ r[k] # PyNone

\* the Risk Priority Number a row must show for a rating
ExpectedRpn(r) ==
    IF AllFactors(r)
    THEN PyInt(FactorNumber(r["detectability"]) * FactorNumber(r["probability"])
               * FactorNumber(r["severity"]))
    ELSE PyStr(<< "-" >>)

\* C13: in the risk table of both Markdown renderers the Risk Priority
\* Number of a row is detectability x probability x severity of that row's
\* rating when all three are present and '-' when one is missing, for the
\* before-mitigation row (risk-rating) and, independently, for the
\* after-mitigation row (residual-risk-rating).
C13_RiskPriorityNumber ==
    (fn.name = "risk_table" /\ out # NoneObject) =>
        \A rows \in {out.markdown, out.markdown_pdf} :
            /\ Len(rows) >= 1 =>
                   /\ rows[1].label = "Before mitigation"
                   /\ rows[1].rpn = ExpectedRpn(fn.arg.data["risk-rating"])
            /\ Len(rows) >= 2 =>
                   /\ rows[2].label = "After mitigation"
                   /\ rows[2].rpn = ExpectedRpn(fn.arg.data["residual-risk-rating"])
            /\ Len(rows) <= 2
            /\ (~fn.arg.heading /\ HasRating(fn.arg.data, "risk-rating")) => Len(rows) >= 1

\* a full rating before mitigation and a rating without severity after it
C13_Witness ==
    /\ fn.name = "risk_table"
    /\ out # NoneObject
    /\ Len(out.markdown) = 2
    /\ Len(out.markdown_pdf) = 2
    /\ AllFactors(fn.arg.data["risk-rating"])
    /\ fn.arg.data["risk-rating"]["severity"] = PyInt(2)
    /\ fn.arg.data["risk-rating"]["probability"] = PyInt(1)
    /\ out.markdown[1].rpn = PyInt(2 * (MaxFactor + 1))
    /\ "severity" \notin DOMAIN fn.arg.data["residual-risk-rating"]
    /\ out.markdown[2].rpn = PyStr(<< "-" >>)
    /\ out.markdown_pdf = out.markdown

----------------------------------------------------------------------------
(* Properties of the link sections *)

LinksRendered == fn.name = "link_sections" /\ out # NoneObject

\* the sections without their labels: what is left when the syntax is
\* taken away
Shape(sections) ==
    [k \in 1..Len(sections) |-> << sections[k].direction, sections[k].links >>]

\* C14 as written: the Text and the Markdown renderer emit the same link
\* sections for an item: the same buckets, in the same order, with the
\* same items in the same order.
C14_SameLinkSections ==
    LinksRendered => Shape(out.text) = Shape(out.markdown)

\* the uids a renderer lists in a direction
Listed(sections, direction) ==
    UNION {Range(sections[k].links) :
           k \in {j \in 1..Len(sections) : sections[j].direction = direction}}

\* the bucket of a uid: use case, requirement, test, risk
BucketOf(u) ==
    IF startswith(u, USECASE) THEN 1
    ELSE IF startswith(u, TEST) THEN 3
    ELSE IF startswith(u, RISK) THEN 4
    ELSE 2

Directions == {"parent", "child", "stakeholder"}

\* C14, amended: both renderers list the same related items in every
\* direction; the Markdown renderer splits a direction into use-case,
\* requirement, test and risk sections, in that order and each in uid
\* order, while the Text renderer writes the parent links as one section,
\* the child links as the items that are no tests and then the tests, and
\* the stakeholder links as one section.
C14_SameItemsOtherSections ==
    LinksRendered =>
        /\ \A d \in Directions : Listed(out.text, d) = Listed(out.markdown, d)
        /\ \A k \in 1..Len(out.markdown) :
               LET sec == out.markdown[k]
               IN  /\ \A a, b \in 1..Len(sec.links) :
                          /\ BucketOf(sec.links[a]) = BucketOf(sec.links[b])
                          /\ a < b => StrLess(sec.links[a], sec.links[b])
                   /\ \A j \in 1..(k - 1) :
                          out.markdown[j].direction = sec.direction
                              => BucketOf(out.markdown[j].links[1]) < BucketOf(sec.links[1])
        /\ Cardinality({k \in 1..Len(out.text) : out.text[k].direction = "parent"}) <= 1
        /\ Cardinality({k \in 1..Len(out.text) : out.text[k].direction = "stakeholder"}) <= 1
        /\ \A k \in 1..Len(out.text) :
               out.text[k].direction = "child" =>
                   \/ \A a \in 1..Len(out.text[k].links) : BucketOf(out.text[k].links[a]) # 3
                   \/ /\ \A a \in 1..Len(out.text[k].links) : BucketOf(out.text[k].links[a]) = 3
                      /\ \A j \in (k + 1)..Len(out.text) : out.text[j].direction # "child"

\* a test linked to a requirement and a use case: one section in the text,
\* two in the Markdown
C14_Witness ==
    /\ LinksRendered
    /\ fn.arg = TEST1
    /\ Len(out.text) >= 1
    /\ out.text[1].links = << REQ1, USECASE1 >>
    /\ Len(out.markdown) >= 2
    /\ out.markdown[1].links = << USECASE1 >>
    /\ out.markdown[2].links = << REQ1 >>

----------------------------------------------------------------------------
(* Properties of the order of the steps of publish() *)

\* no directory loses a file in the step
AssetsOnlyGrow ==
    \A d \in DOMAIN assets : d \in DOMAIN assets' /\ assets[d] \subseteq assets'[d]

\* C15: in one publish() call the assets directory is emptied (or created)
\* once, before any document is rendered, and no later step of the call
\* removes a file from it: the template copy, the asset copy of a document
\* and the stylesheet copy only add files.
C15_AssetsClearedOnceThenGrow ==
    [][/\ pc' = "assets" => pc = "idle"
       /\ pc = "assets" =>
              /\ pc' = "template"
              /\ rendered = <<>> /\ count = 0 /\ written = {}
              /\ assets'[assets_dir(obj, path)] = {}
       /\ pc # "assets" => AssetsOnlyGrow]_vars

\* a second publish into the directory has replaced what the first left
\* there by the template bundle, the assets of a document and the stylesheet
C15_Witness ==
    /\ pc = "returned"
    /\ assets_dir(obj, path) \in DOMAIN assets0
    /\ PDF_CSS \notin assets0[assets_dir(obj, path)]
    /\ assets0[assets_dir(obj, path)] # {}
    /\ TemplateAssets \cup {PDF_CSS, "REQ.png"} \subseteq assets[assets_dir(obj, path)]

\* the documents publish() has to render: all of iter_documents(), or for
\* ".pdf" the documents of the tree that are not the test document
DocumentsInScope ==
    IF ext = DOTPDF
    THEN SelectSeq(sorted_documents(obj.documents), LAMBDA d : d.prefix # TEST)
    ELSE [k \in 1..Len(iter_documents(obj, path, ext)) |-> iter_documents(obj, path, ext)[k].obj2]

\* the output of every document in scope is written and its assets copied
AllDocumentsOut ==
    /\ count = Len(DocumentsInScope)
    /\ \A k \in 1..Len(DocumentsInScope) :
           DocumentsInScope[k].assets \subseteq assets[assets_dir(obj, path)]
    /\ IF ext = DOTPDF
       THEN {join(path, INDEX_MD), join(path, PDF)} \subseteq written
       ELSE \A k \in 1..Len(iter_documents(obj, path, ext)) :
                iter_documents(obj, path, ext)[k].path2 \in written

\* C16: in one publish() call index.html and traceability.csv are each
\* generated at most once, and only after the output of every document in
\* scope is written and its assets are copied; no document is rendered
\* after the index or the matrix has been produced.
C16_IndexAndMatrixLast ==
    [][/\ pc \in {"index", "matrix"} => AllDocumentsOut
       /\ (join(path, INDEX) \in written' /\ join(path, INDEX) \notin written) => pc = "index"
       /\ (join(path, MATRIX) \in written' /\ join(path, MATRIX) \notin written) => pc = "matrix"
       /\ pc = "index" => pc' \in {"matrix", "raised"}
       /\ pc = "matrix" => pc' = "return"
       /\ pc = "return" => pc' = "returned"
       /\ pc \in {"index", "matrix", "return"} =>
              /\ rendered' = rendered
              /\ count' = count
              /\ written' \ written \subseteq {join(path, INDEX), join(path, MATRIX)}]_vars

\* both documents of a tree were rendered, then the index and the matrix
\* were written
C16_Witness ==
    /\ pc = "returned"
    /\ Len(rendered) = 2
    /\ join(path, INDEX) \in written
    /\ join(path, MATRIX) \in written

----------------------------------------------------------------------------
(* Properties of the combined PDF document *)

\* index.md was written by the call
PdfWritten == is_tree(obj) /\ ext = DOTPDF /\ join(path, INDEX_MD) \in written

\* C17: the combined document of a .pdf tree publish is the title page,
\* one table of contents with the entries of all included documents, then
\* for each included document, in sorted order, its rendered lines and a
\* page break; a document with the prefix TEST adds no entry and no lines
\* and does not advance the document counter.
C17_CombinedDocument ==
    PdfWritten =>
        LET lines == content[join(path, INDEX_MD)].lines
            n == (Len(lines) - 5) \div 2
            body(k) == lines[4 + 2 * k]
            entries == lines[4].toc
        IN  /\ Len(lines) = 5 + 2 * n
            /\ lines[1].kind = "title" /\ lines[2].kind = "version"
            /\ lines[3].kind = "pagebreak"
            /\ lines[4].kind = "toc"
            /\ lines[5].kind = "pagebreak"
            /\ content[join(path, PDF)].lines = lines
            /\ {body(k).document : k \in 1..n}
                   = {d.prefix : d \in {x \in Range(obj.documents) : x.prefix # TEST}}
            /\ \A k \in 1..n :
                   /\ body(k).kind = "lines"
                   /\ body(k).count = k
                   /\ lines[5 + 2 * k].kind = "pagebreak"
                   /\ \A j \in 1..(k - 1) :
                          DocLess([prefix |-> body(j).document], [prefix |-> body(k).document])
            /\ count = n
            /\ {<< entries[e].count, entries[e].uid >> : e \in 1..Len(entries)}
                   = UNION {{<< k, it.uid >> :
                                it \in {x \in AllItems(obj) : x.depth = 1
                                          /\ startswith(x.uid, body(k).document)}} :
                            k \in 1..n}
            /\ \A e, f \in 1..Len(entries) : e < f => entries[e].count <= entries[f].count

\* a tree given as USECASE, TEST, REQ: the body holds REQ as the first and
\* USECASE as the second document, and nothing of TEST
C17_Witness ==
    /\ PdfWritten
    /\ Len(obj.documents) = 3
    /\ obj.documents[1].prefix = USECASE
    /\ obj.documents[2].prefix = TEST
    /\ Len(content[join(path, INDEX_MD)].lines) = 9
    /\ content[join(path, INDEX_MD)].lines[6].document = REQ
    /\ content[join(path, INDEX_MD)].lines[8].document = USECASE
    /\ content[join(path, INDEX_MD)].lines[8].count = 2
    /\ Len(content[join(path, INDEX_MD)].lines[4].toc) = 3

----------------------------------------------------------------------------
(* Properties of the HTML renderer *)

\* C18: the HTML renderer wraps its output in the page template only for a
\* Document; for a single item or a list of items it yields just the
\* converted body, without the wrapper and without reading an attribute
\* only a Document has.
C18_WrapperOnlyForDocument ==
    (fn.name = "_lines_html" /\ out # NoneObject) =>
        /\ out.raised = ""
        /\ Len(out.yielded) = 1
        /\ out.yielded[1].kind = IF fn.arg.type = "Document" THEN "page" ELSE "body"

----------------------------------------------------------------------------
(* Properties of the level labels *)

\* the number a label starts with: its characters before the first '.'
RECURSIVE LeadingNumber(_)
LeadingNumber(text) ==
    IF text = <<>> \/ Head(text) = "." THEN <<>>
    ELSE << Head(text) >> \o LeadingNumber(Tail(text))

\* the level with the count in place of its first number, a final '.0' dropped
Renumbered(level, n) ==
    LET text == LevelStr(<< n >> \o Tail(level))
    IN  IF endswith(text, << ".", "0" >>) THEN SubSeq(text, 1, Len(text) - 2) ELSE text

\* C19: the label of an item of the k-th included document is k followed by
\* the item's level without its leading dot-separated number, a final '.0'
\* dropped, also when the leading number has more than one digit; so the
\* label starts with the number k of the document.
C19_LabelRenumbered ==
    (fn.name = "level" /\ out # NoneObject) =>
        /\ out.label = Renumbered(fn.arg, fn.count)
        /\ LeadingNumber(out.label) = IntStr(fn.count)

----------------------------------------------------------------------------
(* Properties of the order of the rows of the traceability matrix *)

\* real items in ascending order of their uid strings
UidAscending(a, b) == (a # None /\ b # None) => ~StrLess(b, a)

\* the three tiers of two rows, the earlier first: the use cases, the
\* requirements of one use case, the test cases of one requirement
Tiers(r1, r2) ==
    {<< r1.use_case, r2.use_case >>}
    \cup (IF r1.use_case = r2.use_case
          THEN {<< r1.requirement, r2.requirement >>} ELSE {})
    \cup (IF r1.use_case = r2.use_case /\ r1.requirement = r2.requirement
          THEN {<< r1.test_case, r2.test_case >>} ELSE {})

\* the pairs of rows of the table, the earlier row first
RowPairs ==
    {<< out.table[q[1]].row, out.table[q[2]].row >> :
        q \in {x \in (1..Len(out.table)) \X (1..Len(out.table)) : x[1] < x[2]}}

\* C20: at every tier of the traceability matrix (use cases, requirements
\* of a use case, test cases of a requirement) the None entry comes first
\* and all real items follow it in ascending order of their uid string.
C20_NoneFirstThenByUid ==
    (fn.name = "_lines_index" /\ out # NoneObject) =>
        \A p \in RowPairs : \A t \in Tiers(p[1], p[2]) :
            /\ t[2] = None => t[1] = None
            /\ UidAscending(t[1], t[2])

\* C20 (amended): at every tier the real items come first, in ascending
\* order of their uid string, and the None entry comes last.
C20_ByUidThenNoneLast ==
    (fn.name = "_lines_index" /\ out # NoneObject) =>
        \A p \in RowPairs : \A t \in Tiers(p[1], p[2]) :
            /\ t[1] = None => t[2] = None
            /\ UidAscending(t[1], t[2])

\* two use cases in order before the rows without a use case, and under no
\* use case a requirement before the row of no requirement
C20_Witness ==
    /\ fn.name = "_lines_index"
    /\ out # NoneObject
    /\ \E p \in RowPairs :
          /\ p[1].use_case # None /\ p[2].use_case # None
          /\ StrLess(p[1].use_case, p[2].use_case)
    /\ \E p \in RowPairs : p[1].use_case # None /\ p[2].use_case = None
    /\ \E p \in RowPairs :
          /\ p[1].use_case = None /\ p[2].use_case = None
          /\ p[1].requirement # None /\ p[2].requirement = None

----------------------------------------------------------------------------
(* Properties of the heading lines of the Markdown renderers *)

MarkdownRendered == fn.name = "_lines_markdown" /\ out # NoneObject

\* the number of '#' a line starts with
RECURSIVE LeadingHashes(_)
LeadingHashes(line) ==
    IF line # <<>> /\ Head(line) = "#" THEN 1 + LeadingHashes(Tail(line)) ELSE 0

\* the line ends with the attribute list {#uid }
HasAnchor(line, uid) == endswith(line, << " {#" >> \o uid \o << " }" >>)

\* the line carries no attribute list at all
NoAnchor(line) == \A k \in 1..Len(line) : line[k] # " {#"

\* C21: in the Markdown renderer the heading line of an item has as many
\* '#' as the item's depth, and carries the attribute list {#uid} if and
\* only if linkify is requested.
C21_AnchorIffLinkify ==
    MarkdownRendered =>
        LET line == out.markdown[1]
        IN  /\ LeadingHashes(line) = fn.arg.depth
            /\ HasAnchor(line, fn.arg.uid) <=> fn.linkify
            /\ ~fn.linkify => NoAnchor(line)

\* C21 (amended): the heading line has as many '#' as the item's depth and
\* always carries the attribute list {#uid }, whether or not linkify is
\* requested.
C21_AnchorAlways ==
    MarkdownRendered =>
        LET line == out.markdown[1]
        IN  /\ LeadingHashes(line) = fn.arg.depth
            /\ HasAnchor(line, fn.arg.uid)

\* a heading line of depth 3 rendered with linkify off carries the anchor
C21_Witness ==
    /\ MarkdownRendered
    /\ ~fn.linkify
    /\ fn.arg.depth = 3
    /\ LeadingHashes(out.markdown[1]) = 3
    /\ HasAnchor(out.markdown[1], fn.arg.uid)

----------------------------------------------------------------------------
(* Properties of the cells of the risk table *)

\* the cell a factor of a rating must show: its value, '-' when it is missing
ExpectedCell(r, factor) ==
    IF factor \in DOMAIN r /\ r[factor] # PyNone THEN r[factor] ELSE PyStr(<< "-" >>)

\* C22: in each row of the risk table (before mitigation, after mitigation)
\* the Detectability, Probability and Severity cells show that rating's
\* detectability, probability and severity, and '-' for a missing factor.
C22_FactorCells ==
    (fn.name = "risk_table" /\ out # NoneObject) =>
        \A rows \in {out.markdown, out.markdown_pdf} :
            \A k \in 1..Len(rows) :
                LET r == fn.arg.data[IF k = 1 THEN "risk-rating" ELSE "residual-risk-rating"]
                IN  /\ rows[k].detectability = ExpectedCell(r, "detectability")
                    /\ rows[k].probability = ExpectedCell(r, "probability")
                    /\ rows[k].severity = ExpectedCell(r, "severity")

----------------------------------------------------------------------------
(* Properties of the search entries *)

\* C23: the text field of every search entry is entirely lowercase and free
\* of raw newlines, and a query for the item's uid, lowercased by the
\* client, matches the entry of the item.
C23_UidQueryMatches ==
    (fn.name = "search" /\ out # NoneObject) =>
        /\ lower(out.text) = out.text
        /\ \A k \in 1..Len(out.text) : out.text[k] # "\n"
        /\ search_matches(out, fn.arg.uid)

----------------------------------------------------------------------------
(* Properties of the grouping of the traceability matrix *)

IndexRendered == fn.name = "_lines_index" /\ out # NoneObject

\* the uid starts with one of TEST, ROLE, USECASE, RISK, HEAD
HasCategoryPrefix(u) == \E p \in {TEST, ROLE, USECASE, RISK, HEAD} : startswith(u, p)

\* the uids of the items of the requirement tier
RequirementTier == {it.uid : it \in {x \in AllItems(tree) : ~HasCategoryPrefix(x.uid)}}

\* the parents of an item that are use cases or risks
UseCaseParents(it) == {u \in it.links : startswith(u, USECASE) \/ startswith(u, RISK)}

\* the requirement-tier items a test is a child of
RequirementParents(it) == it.links \cap RequirementTier

\* the (use case, requirement) pairs and the (requirement, test case) pairs
\* of the rows
UseCaseRequirementPairs ==
    {<< out.table[k].row.use_case, out.table[k].row.requirement >> : k \in 1..Len(out.table)}

RequirementTestPairs ==
    {<< out.table[k].row.use_case, out.table[k].row.requirement, out.table[k].row.test_case >> :
        k \in 1..Len(out.table)}

\* C24: the requirement column of the traceability matrix contains exactly
\* the items whose uid starts with none of TEST, ROLE, USECASE, RISK, HEAD;
\* each of them appears under every parent whose uid starts with USECASE or
\* RISK, and under the None use case if and only if it has no such parent.
C24_RequirementColumn ==
    IndexRendered =>
        /\ {p[2] : p \in UseCaseRequirementPairs} \ {None} = RequirementTier
        /\ \A it \in AllItems(tree) :
               it.uid \in RequirementTier =>
                   {p[1] : p \in {q \in UseCaseRequirementPairs : q[2] = it.uid}}
                       = IF UseCaseParents(it) = {} THEN {None} ELSE UseCaseParents(it)

\* a requirement under two use cases, one without a use case, and a
\* heading with a use-case parent that is in no row
C24_Witness ==
    /\ IndexRendered
    /\ tree \in CategoryTrees
    /\ << USECASE1, REQ1 >> \in UseCaseRequirementPairs
    /\ << None, REQ2 >> \in UseCaseRequirementPairs
    /\ \A p \in UseCaseRequirementPairs : p[2] # Uid(HEAD, 1)

\* C25: every item whose uid starts with TEST is in at least one row of the
\* matrix: under each requirement-tier item it is a child of, and under
\* the None requirement of the None use case if and only if it is a child
\* of no requirement-tier item.
C25_TestRows ==
    IndexRendered =>
        \A it \in AllItems(tree) :
            startswith(it.uid, TEST) =>
                LET at == {p \in RequirementTestPairs : p[3] = it.uid}
                IN  /\ at # {}
                    /\ {p[2] : p \in at}
                           = IF RequirementParents(it) = {} THEN {None}
                             ELSE RequirementParents(it)
                    /\ \A p \in at : p[2] = None => p[1] = None

\* a test under two requirements and a test linked to a use case only,
\* which is under the None requirement
C25_Witness ==
    /\ IndexRendered
    /\ \E p, q \in RequirementTestPairs :
          p[3] = TEST1 /\ q[3] = TEST1 /\ p[2] = REQ1 /\ q[2] = REQ2
    /\ << None, None, TEST2 >> \in RequirementTestPairs
    /\ \E it \in AllItems(tree) : it.uid = TEST2 /\ it.links = {USECASE1}

----------------------------------------------------------------------------
(* Properties of the requirement cells of the matrix table *)

\* C26: in the table of the traceability matrix a requirement cell is
\* emitted exactly on the first row of each maximal run of consecutive rows
\* with the same (use case, requirement) pair, with the length of the run as
\* its rowspan; so the rowspans of the requirement cells add up to the
\* number of rows.
C26_RequirementRowspans ==
    IndexRendered =>
        LET table == out.table
            n == Len(table)
            pair(k) == << table[k].row.use_case, table[k].row.requirement >>
            sum[k \in 0..n] == IF k = 0 THEN 0 ELSE sum[k - 1] + table[k].requirement_rowspan
            first(k) == k = 1 \/ pair(k - 1) # pair(k)
        IN  /\ sum[n] = n
            /\ \A k \in 1..n :
                   /\ table[k].requirement_rowspan > 0 <=> first(k)
                   /\ first(k) =>
                          /\ \A j \in k..(k + table[k].requirement_rowspan - 1) :
                                 j <= n /\ pair(j) = pair(k)
                          /\ k + table[k].requirement_rowspan <= n
                                 => pair(k + table[k].requirement_rowspan) # pair(k)

\* a requirement with two tests under a use case that has a second
\* requirement: the requirement cell spans two rows, the use-case cell three
C26_Witness ==
    /\ IndexRendered
    /\ \E k \in 1..Len(out.table) :
          /\ out.table[k].requirement_rowspan = 2
          /\ out.table[k].use_case_rowspan = 3
          /\ out.table[k].row.requirement # None
          /\ out.table[k + 1].requirement_rowspan = 0

----------------------------------------------------------------------------
(* Properties of the assets directory and of the link to the PDF *)

\* C28: after any sequence of successful publish() calls to an output
\* location, in any mix of formats, the assets directory beside the output
\* holds the whole template bundle: every call copies the bundle again
\* after it has cleared the directory, whatever the format.
C28_TemplateBundleKept ==
    \A d \in DOMAIN assets :
        \/ pc = "template" /\ d = assets_dir(obj, path)
        \/ TemplateAssets \subseteq assets[d]

\* a Markdown publish of a tree into the directory of an earlier HTML
\* publish has returned, and the bundle is in the assets directory
C28_Witness ==
    /\ pc = "returned"
    /\ is_tree(obj)
    /\ ext = MD
    /\ count > 0
    /\ HasHtmlPage
    /\ assets_dir(obj, path) \in DOMAIN assets0
    /\ TemplateAssets \subseteq assets[assets_dir(obj, path)]

\* the index.html this call has written has the link to the PDF
HasPdfLink == content[join(path, INDEX)].link_to_pdf

\* C29: the index.html written by an HTML publish of a tree has the link
\* 'Requirements as PDF' if and only if index.pdf is in the output
\* directory when the index is generated: it has the link after a .pdf
\* publish into the same directory and not in a fresh directory.
C29_PdfLinkIffPdfExists ==
    (IndexStepDone /\ ext = HTML /\ join(path, INDEX) \in written) =>
        /\ HasPdfLink <=> join(path, PDF) \in files
        /\ join(path, PDF) \in files0 => HasPdfLink
        /\ files0 = {} => ~HasPdfLink

\* an HTML publish after a .pdf publish into the same directory has
\* written the index with the link
C29_Witness ==
    /\ pc = "returned"
    /\ is_tree(obj)
    /\ ext = HTML
    /\ join(path, PDF) \in files0
    /\ join(path, INDEX) \in written
    /\ content[join(path, INDEX)].link_to_pdf

----------------------------------------------------------------------------
(* Properties of the Markdown-for-PDF renderer *)

\* a line 'Priority: ...' is among the lines
HasPriorityLine(lines) ==
    \E k \in 1..Len(lines) : lines[k] # <<>> /\ Head(lines[k]) = "Priority: "

\* the priority stands in parentheses on the line
HasInlinePriority(line) == \E k \in 1..Len(line) : line[k] = " <small>("

\* the item is not a heading and has a priority
HasPriority(item) ==
    ~item.heading /\ "prio" \in DOMAIN item.data /\ truthy(item.data["prio"])

\* the line holds no Markdown link
NoHyperlink(line) == \A k \in 1..Len(line) : line[k] \notin {"[", "]("}

\* C27: with linkify off the Markdown-for-PDF renderer appends no attribute
\* list to the heading line and emits no 'Priority:' line, the priority
\* standing inline after the uid; with linkify on it emits the attribute
\* list and the 'Priority:' line as the Markdown renderer does.
C27_PdfFollowsLinkify ==
    MarkdownRendered =>
        LET pdf == out.markdown_pdf
        IN  /\ ~fn.linkify =>
                   /\ NoAnchor(pdf[1])
                   /\ ~HasPriorityLine(pdf)
                   /\ HasPriority(fn.arg) => HasInlinePriority(pdf[1])
            /\ fn.linkify =>
                   /\ HasAnchor(pdf[1], fn.arg.uid)
                   /\ HasPriorityLine(pdf) <=> HasPriorityLine(out.markdown)

\* C27 (amended): the Markdown-for-PDF renderer appends the attribute list
\* to the heading line if and only if linkify is on, and it never emits a
\* 'Priority:' line, with linkify on or off: the priority stands inline
\* after the uid when settings.ENABLE_HEADERS is on and is left out when it
\* is off, while the Markdown renderer emits the 'Priority:' line.
C27_PdfAnchorOnlyFollowsLinkify ==
    MarkdownRendered =>
        LET pdf == out.markdown_pdf
        IN  /\ HasAnchor(pdf[1], fn.arg.uid) <=> fn.linkify
            /\ ~fn.linkify => NoAnchor(pdf[1])
            /\ ~HasPriorityLine(pdf)
            /\ HasInlinePriority(pdf[1]) <=> (HasPriority(fn.arg) /\ fn.settings.ENABLE_HEADERS)
            /\ HasPriorityLine(out.markdown) <=> HasPriority(fn.arg)

\* an item with a priority rendered with linkify on: the PDF renderer has
\* the anchor and the inline priority but no 'Priority:' line, which the
\* Markdown renderer has
C27_Witness ==
    /\ MarkdownRendered
    /\ fn.linkify
    /\ fn.settings.ENABLE_HEADERS
    /\ HasPriority(fn.arg)
    /\ HasAnchor(out.markdown_pdf[1], fn.arg.uid)
    /\ HasInlinePriority(out.markdown_pdf[1])
    /\ ~HasPriorityLine(out.markdown_pdf)
    /\ HasPriorityLine(out.markdown)

\* an item of a published tree as the renderer sees it: no header, no text,
\* no data, its level as deep as its depth
RenderedItem(it) ==
    [uid |-> it.uid, depth |-> it.depth, level |-> [k \in 1..it.depth |-> 1],
     heading |-> FALSE, header |-> <<>>, text |-> <<>>, data |-> << >>,
     links |-> SetToSeq(it.links)]

\* the lines of the items of the document of a publish_lines() call
RenderedLines(r) ==
    LET document == CHOOSE d \in Range(obj.documents) : d.prefix = r.document
    IN  UNION {Range(_lines_markdown_pdf(RenderedItem(it), r.count, r.linkify,
                         [ENABLE_HEADERS |-> TRUE, PUBLISH_HEADING_LEVELS |-> TRUE,
                          PUBLISH_BODY_LEVELS |-> TRUE])) :
               it \in Range(document.items)}

\* C30: when publish() runs with the format .pdf every document is rendered
\* with linkify off, whatever the caller passed and whatever the default
\* is, so the combined Markdown has no attribute list and no hyperlink to
\* an item.
C30_PdfRenderedWithoutLinkify ==
    (ext = DOTPDF /\ is_tree(obj)) =>
        \A k \in 1..Len(rendered) :
            /\ rendered[k].gen = "_lines_markdown_pdf"
            /\ ~rendered[k].linkify
            /\ \A line \in RenderedLines(rendered[k]) : NoAnchor(line) /\ NoHyperlink(line)

\* a .pdf publish called with linkify=True has rendered a document whose
\* items have parent links
C30_Witness ==
    /\ pc = "returned"
    /\ ext = DOTPDF
    /\ args.linkify = "True"
    /\ Len(rendered) >= 1
    /\ ~rendered[1].linkify
    /\ \E line \in RenderedLines(rendered[1]) : line # <<>> /\ Head(line) = "*"

=============================================================================
